---------------------------- MODULE Spec2Model ----------------------------
(*
  A model of the salon-finder pipeline (frontend/src):
    lib/rateLimiter.ts        RateLimiter (sliding window, backoff)
    lib/perplexityClient.ts   makeRequest / listSalons / getSalonDetails
    app/api/research-suburb   POST (researchList)
    app/api/fetch-salon-details POST (researchDetails)
    lib/claudeProcessor.ts    enrichWithGooglePlaces (the Google Places merge)
    lib/salonDataValidator.ts isValidSalonName / validateSalonDetails / validateSalonList
    lib/serverCache.ts        ServerCache

  Times are in milliseconds, as in the source.
*)
EXTENDS Integers, Sequences, FiniteSets, TLC

VARIABLES
  now,                \* Date.now()
  requestTimes,       \* RateLimiter.requestTimes
  backoffUntil,       \* RateLimiter.backoffUntil
  consecutiveErrors,  \* RateLimiter.consecutiveErrors
  pc,                 \* position of the request being served
  kind,               \* "list" (research-suburb) or "details" (fetch-salon-details)
  attempt,            \* makeRequest's local `attempt`
  sent,               \* upstream requests sent by the current governed call
  n429,               \* how many of them were answered 429
  startErrors,        \* consecutiveErrors when the governed call began
  waits,              \* durations the governed call has slept, in order
  thrown,             \* the exception makeRequest has just thrown
  content,            \* the text makeRequest returned
  response,           \* the route's HTTP response
  callsLeft,          \* requests the caller may still start
  route,              \* the locals of the route handler serving the request
  mSalon,             \* enrichment merge: the existing record
  mPlace,             \* enrichment merge: the Google Places record
  mOnce,              \* the merge of mPlace into mSalon
  mTwice,             \* the merge of mPlace into mOnce
  detailsCache,       \* .cache/salon-details: file name -> CachedSalonDetails
  listCache,          \* .cache/salon-lists: file name -> CachedSalonData
  cacheIndex,         \* .cache/cache-index.json: NoFile or IndexFile(CacheMetadata list)
  lastOp,             \* the latest ServerCache call, with what it returned or logged
  cacheOps,           \* number of direct ServerCache calls and clock ticks so far
  aborted,            \* the client has aborted the request being served
  reader,             \* a getSalonDetails that has read its file and not yet returned
  fnArg,              \* the argument of the validator or parser function under study
  fnResult,           \* what the function returned for fnArg
  fnNext              \* what the next function of the pipeline returned for fnResult

govVars == <<now, requestTimes, backoffUntil, consecutiveErrors, pc, kind, attempt,
             sent, n429, startErrors, waits, thrown, content, response, callsLeft>>

mergeVars == <<mSalon, mPlace, mOnce, mTwice>>

cacheVars == <<detailsCache, listCache, cacheIndex, lastOp>>

\* calls in flight besides the request being served
flightVars == <<aborted, reader>>

\* a function of the validator or the parser applied on its own
fnVars == <<fnArg, fnResult, fnNext>>

\* what the request governor never touches
nonGov == <<route, mergeVars, cacheVars, cacheOps, flightVars, fnVars>>

vars == <<govVars, route, mergeVars, cacheVars, cacheOps, flightVars, fnVars>>

--------------------------------------------------------------------------
(* Bounds of the model *)

\* upstream requests one behaviour may send in one governed call
MaxSends == 6

\* requests served one after the other when the details cache is followed
MaxCalls == 2

\* direct ServerCache calls and clock ticks in one behaviour
MaxCacheOps == 4

\* whole retention windows the clock may run through
MaxWeeks == 2

\* consecutive failures the rate limiter is told of when it is driven directly
MaxErrors == 10

\* seconds the clock may run while the rate limiter is driven directly
MaxSeconds == 4

--------------------------------------------------------------------------
(* Arithmetic helpers *)

Min2(a, b) == IF a < b THEN a ELSE b
Max2(a, b) == IF a > b THEN a ELSE b

RECURSIVE Pow2(_)
Pow2(n) == IF n <= 0 THEN 1 ELSE 2 * Pow2(n - 1)

RECURSIVE SeqMin(_)
SeqMin(s) == IF Len(s) = 1 THEN s[1] ELSE Min2(s[1], SeqMin(Tail(s)))

--------------------------------------------------------------------------
(* JavaScript values.  An object is a record; a key that is missing or holds
   undefined is a key outside the record's DOMAIN.  Strings are strings. *)

Has(r, f) == f \in DOMAIN r
\* `r.f` used as a condition, for a string-valued and for a number-valued field
TruthyStr(r, f) == Has(r, f) /\ r[f] # ""
TruthyNum(r, f) == Has(r, f) /\ r[f] # 0
\* the object holding key f with value v when `present`, and no key otherwise
Field(present, f, v) == IF present THEN f :> v ELSE <<>>

\* an optional key: opt is <<>> (key missing) or <<v>>
Opt(f, opt) == IF opt = <<>> THEN <<>> ELSE f :> opt[1]

Char(s, i) == SubSeq(s, i, i)
Digits == {"0", "1", "2", "3", "4", "5", "6", "7", "8", "9"}
IsDigit(c) == c \in Digits

Upper == "ABCDEFGHIJKLMNOPQRSTUVWXYZ"
Lower == "abcdefghijklmnopqrstuvwxyz"
Whitespace == {" ", "\t", "\n", "\r"}
LowerLetters == {Char(Lower, i) : i \in 1..26}
UpperLetters == {Char(Upper, i) : i \in 1..26}
IsLower(c) == c \in LowerLetters
IsUpper(c) == c \in UpperLetters
IsLetter(c) == IsLower(c) \/ IsUpper(c)
\* the letter of the other case, as a table evaluated once
lowerOf == [c \in UpperLetters |-> Char(Lower, CHOOSE i \in 1..26 : Char(Upper, i) = c)] @@ <<>>
upperOf == [c \in LowerLetters |-> Char(Upper, CHOOSE i \in 1..26 : Char(Lower, i) = c)] @@ <<>>
LowerChar(c) == IF IsUpper(c) THEN lowerOf[c] ELSE c
UpperChar(c) == IF IsLower(c) THEN upperOf[c] ELSE c

\* /^\d+$/.test(str)
AllDigits(str) == Len(str) > 0 /\ \A i \in 1..Len(str) : IsDigit(Char(str, i))

\* str.toLowerCase()
RECURSIVE ToLowerCase(_)
ToLowerCase(str) ==
  IF str = "" THEN "" ELSE LowerChar(Char(str, 1)) \o ToLowerCase(SubSeq(str, 2, Len(str)))

\* str.trim()
RECURSIVE TrimStart(_)
TrimStart(str) ==
  IF str # "" /\ Char(str, 1) \in Whitespace THEN TrimStart(SubSeq(str, 2, Len(str)))
  ELSE str
RECURSIVE TrimEnd(_)
TrimEnd(str) ==
  IF str # "" /\ Char(str, Len(str)) \in Whitespace
    THEN TrimEnd(SubSeq(str, 1, Len(str) - 1))
  ELSE str
Trim(str) == TrimEnd(TrimStart(str))

\* array.slice(0, n)
Slice(seq, n) == SubSeq(seq, 1, Min2(n, Len(seq)))

Range(seq) == {seq[i] : i \in 1..Len(seq)}

\* str.startsWith(sub), str.includes(sub)
StartsWith(str, sub) == Len(sub) <= Len(str) /\ SubSeq(str, 1, Len(sub)) = sub
Includes(str, sub) ==
  \E i \in 1..(Len(str) - Len(sub) + 1) : SubSeq(str, i, i + Len(sub) - 1) = sub

--------------------------------------------------------------------------
(* JavaScript regular expressions, as syntax trees, and their matching.
   A node is a record tagged by t:
     lit  the literal string s
     set  one character of a class: the characters cs, the ranges a-z (az),
          A-Z (AZ), 0-9 (d), \s (s) and _ with them for \w; negated when neg
     cat / alt   concatenation / alternation of the nodes rs
     star / plus / opt   r*, r+, r?
     bol / eol / wb   ^, $ and \b
   Ends(n, str, i, ci) is the set of positions at which a match of n that
   starts at position i of str can end (ci: the i flag). *)

RLit(s) == [t |-> "lit", s |-> s]
RSet(neg, cs, az, AZ, d, s) ==
  [t |-> "set", neg |-> neg, cs |-> cs, az |-> az, AZ |-> AZ, d |-> d, s |-> s]
RCat(rs) == [t |-> "cat", rs |-> rs]
RAlt(rs) == [t |-> "alt", rs |-> rs]
RStar(r) == [t |-> "star", r |-> r]
RPlus(r) == [t |-> "plus", r |-> r]
ROpt(r) == [t |-> "opt", r |-> r]
RBol == [t |-> "bol"]
REol == [t |-> "eol"]
RWb == [t |-> "wb"]
RDigit == RSet(FALSE, {}, FALSE, FALSE, TRUE, FALSE)
RSpace == RSet(FALSE, {}, FALSE, FALSE, FALSE, TRUE)
RWord == RSet(FALSE, {"_"}, TRUE, TRUE, TRUE, FALSE)
RAny == RSet(TRUE, {"\n", "\r"}, FALSE, FALSE, FALSE, FALSE)
\* A backquote cannot be written inside a TLA+ string: the tilde stands for it
Backquote == "~"
Fence == Backquote \o Backquote \o Backquote

IsWordChar(c) == IsLetter(c) \/ IsDigit(c) \/ c = "_"

InClass(c, n) ==
  \/ c \in n.cs
  \/ n.az /\ IsLower(c)
  \/ n.AZ /\ IsUpper(c)
  \/ n.d /\ IsDigit(c)
  \/ n.s /\ c \in Whitespace

ClassMatches(c, n, ci) ==
  LET in == InClass(c, n) \/ (ci /\ (InClass(LowerChar(c), n) \/ InClass(UpperChar(c), n)))
  IN in # n.neg

RECURSIVE Ends(_, _, _, _), EndsCat(_, _, _, _), EndsStar(_, _, _, _, _)
Ends(n, str, i, ci) ==
  CASE n.t = "lit" ->
         LET part == SubSeq(str, i, Min2(Len(str), i + Len(n.s) - 1)) IN
         IF (IF ci THEN ToLowerCase(part) = ToLowerCase(n.s) ELSE part = n.s)
           THEN {i + Len(n.s)} ELSE {}
    [] n.t = "set" ->
         IF i <= Len(str) /\ ClassMatches(Char(str, i), n, ci) THEN {i + 1} ELSE {}
    [] n.t = "cat" -> EndsCat(n.rs, str, {i}, ci)
    [] n.t = "alt" -> UNION {Ends(n.rs[k], str, i, ci) : k \in 1..Len(n.rs)}
    [] n.t = "star" -> EndsStar(n.r, str, {i}, {i}, ci)
    [] n.t = "plus" -> EndsStar(n.r, str, Ends(n.r, str, i, ci), Ends(n.r, str, i, ci), ci)
    [] n.t = "opt" -> {i} \cup Ends(n.r, str, i, ci)
    [] n.t = "bol" -> IF i = 1 THEN {i} ELSE {}
    [] n.t = "eol" -> IF i = Len(str) + 1 THEN {i} ELSE {}
    [] n.t = "wb" ->
         LET before == i > 1 /\ IsWordChar(Char(str, i - 1))
             after == i <= Len(str) /\ IsWordChar(Char(str, i))
         IN IF before # after THEN {i} ELSE {}
\* the ends of a match of the nodes rs in turn, started at any position of `from`
EndsCat(rs, str, from, ci) ==
  IF rs = <<>> \/ from = {} THEN from
  ELSE EndsCat(Tail(rs), str, UNION {Ends(Head(rs), str, p, ci) : p \in from}, ci)
\* the positions reachable from `frontier` by further matches of r, with `seen`
EndsStar(r, str, frontier, seen, ci) ==
  LET next == UNION {Ends(r, str, p, ci) : p \in frontier} \ seen IN
  IF next = {} THEN seen ELSE EndsStar(r, str, next, seen \cup next, ci)

\* regex.test(str)
Test(re, str, ci) == \E i \in 1..(Len(str) + 1) : Ends(re, str, i, ci) # {}

\* where the match of re that starts at position i ends, 0 when there is none.
\* Every pattern replaced below is greedy throughout, so its match is the longest.
MatchEnd(re, str, i, ci) ==
  LET ends == Ends(re, str, i, ci) IN
  IF ends = {} THEN 0 ELSE CHOOSE m \in ends : \A e \in ends : e <= m

RECURSIVE ReplaceFrom(_, _, _, _, _, _)
\* str.replace(re, by) from position i on: each match when global, else the first
ReplaceFrom(re, str, i, ci, by, global) ==
  IF i > Len(str) THEN ""
  ELSE LET m == MatchEnd(re, str, i, ci) IN
       IF m > i
         THEN by \o (IF global THEN ReplaceFrom(re, str, m, ci, by, global)
                     ELSE SubSeq(str, m, Len(str)))
         ELSE Char(str, i) \o ReplaceFrom(re, str, i + 1, ci, by, global)
Replace(re, str, ci, by, global) == ReplaceFrom(re, str, 1, ci, by, global)

--------------------------------------------------------------------------
(* lib/rateLimiter.ts *)

maxRequests == 50
windowMs == 60000

\* requestTimes.filter(time => now - time < windowMs)
InWindow(times, t) == SelectSeq(times, LAMBDA x : t - x < windowMs)

\* canMakeRequest at time t, as a value
canMakeRequest(times, until, t) ==
  IF t < until THEN FALSE ELSE Len(InWindow(times, t)) < maxRequests

\* A wait that ends 100 ms before the oldest request leaves the window (tests C12)
WindowWaitTimeShort(cleaned, t) == Max2(0, windowMs - (t - SeqMin(cleaned)) - 100)

\* waitForSlot at the rate limit: the wait until the oldest request has left the
\* window, with a buffer of 100 ms
WindowWaitTime(cleaned, t) == Max2(0, windowMs - (t - SeqMin(cleaned)) + 100)

\* A backoff that does not grow with the consecutive errors (tests C3)
FlatBackoffSeconds(errors) == 2

\* A recordRequest that leaves the error counter alone (tests C14)
recordRequestKeepingErrors(times, errors, t) ==
  [requestTimes |-> Append(times, t), consecutiveErrors |-> errors]

\* recordRequest at time t: the window log and the counter after a success
recordRequest(times, errors, t) ==
  [requestTimes |-> Append(times, t), consecutiveErrors |-> 0]

\* handle429Error: the counter and backoffUntil after one more 429 at time t
Backoff429Seconds(errors) == Min2(Pow2(errors), 300)
handle429Error(errors, t) ==
  [consecutiveErrors |-> errors + 1,
   backoffUntil |-> t + Backoff429Seconds(errors + 1) * 1000]

\* handleServerError(statusCode): the counter and backoffUntil after one more
\* failure with that status at time t
ServerBackoffSeconds(statusCode, errors) ==
  IF statusCode = 401 THEN Min2(Pow2(errors + 1) * 2, 600)
  ELSE IF statusCode = 500 THEN Min2(Pow2(errors + 1) * 3, 600)
  ELSE Min2(Pow2(errors), 120)
handleServerError(statusCode, errors, t) ==
  [consecutiveErrors |-> errors + 1,
   backoffUntil |-> t + ServerBackoffSeconds(statusCode, errors + 1) * 1000]

\* getTimeUntilNextSlot, as a value: the wait and the (possibly cleaned) window log
getTimeUntilNextSlot(times, until, t) ==
  IF t < until
    THEN [wait |-> until - t, times |-> times]
    ELSE LET cleaned == InWindow(times, t) IN
         IF Len(cleaned) < maxRequests
           THEN [wait |-> 0, times |-> cleaned]
           ELSE [wait |-> Max2(0, windowMs - (t - SeqMin(cleaned))), times |-> cleaned]

--------------------------------------------------------------------------
(* lib/perplexityClient.ts *)

MAX_RETRIES == 5
NoStatus == 0            \* error.response?.status is undefined (network failure)
JitterCeil == 1000       \* Math.random() * 1000
Jitters == {0, JitterCeil - 1}

ErrorStatuses == {429, 401, 500, 502, 503, 504, 400, NoStatus}

\* A retry set that takes in the 400 (tests C15)
isRetryableErrorOr400(status) ==
  status \in {400, 401, 429, 500, 502, 503, 504} \/ status = NoStatus

isRetryableError(status) ==
  status \in {401, 429, 500, 502, 503, 504} \/ status = NoStatus

calculateBackoff(att, baseDelay, status, jitter) ==
  LET maxDelay == IF status = 429 THEN 300000
                  ELSE IF status \in {502, 503, 504} THEN 120000
                  ELSE 600000
  IN Min2(baseDelay * Pow2(att) + jitter, maxDelay)

NoError == [name |-> "none"]
TerminalError == [name |-> "Error"]
RetryableError(att, maxAttempts, nextRetryMs) ==
  [name |-> "RetryableError", attempt |-> att, maxAttempts |-> maxAttempts,
   nextRetryMs |-> nextRetryMs]

NoResponse == [status |-> 0]
\* no getSalonDetails is between its read and its return
NoReader == [file |-> ""]
NoRoute == [handler |-> "none"]

(* What a 200 reply of the upstream carries.  Missing: no
   choices[0].message.content.  Otherwise a text, given by what the client's
   two readers make of it: `parsed` is the outcome of parseJsonResponse,
     [array |-> a]   a JSON array,
     [object |-> o]  a JSON object,
     [fail |-> TRUE] the Error it throws when no strategy finds JSON,
   and `extracted` is the list extractSalonArray returns for the same text. *)
Missing == [missing |-> TRUE]
NoContent == [none |-> TRUE]
ParsedArray(a) == [array |-> a]
ParsedObject(o) == [object |-> o]
ParseFailure == [fail |-> TRUE]

\* A fresh process: `new RateLimiter(50, 60000)`, no request being served.
InitGovernor ==
  /\ now = 0
  /\ requestTimes = <<>>
  /\ backoffUntil = 0
  /\ consecutiveErrors = 0
  /\ pc = "idle"
  /\ kind = "none"
  /\ attempt = 0
  /\ sent = 0
  /\ n429 = 0
  /\ startErrors = 0
  /\ waits = <<>>
  /\ thrown = NoError
  /\ content = NoContent
  /\ response = NoResponse
  /\ route = NoRoute
  /\ aborted = FALSE
  /\ reader = NoReader

\* A route handler of kind k starts serving a request and gets to position `at`
\* with the response `resp` (NoResponse while it has not answered).
StartRequest(k, at, resp) ==
  /\ pc \in {"idle", "done"}
  /\ callsLeft > 0
  /\ callsLeft' = callsLeft - 1
  /\ kind' = k
  /\ pc' = at
  /\ attempt' = 0
  /\ sent' = 0
  /\ n429' = 0
  /\ startErrors' = consecutiveErrors
  /\ waits' = <<>>
  /\ thrown' = NoError
  /\ content' = NoContent
  /\ response' = resp
  /\ aborted' = FALSE

\* makeRequest entry (`let attempt = 0`) and `await perplexityRateLimiter.waitForSlot()`
waitForSlot ==
  /\ pc = "makeRequest"
  /\ attempt' = 0
  /\ IF now < backoffUntil
       THEN /\ now' = backoffUntil
            /\ waits' = Append(waits, backoffUntil - now)
            /\ UNCHANGED requestTimes
       ELSE LET cleaned == InWindow(requestTimes, now) IN
            IF Len(cleaned) >= maxRequests
              THEN LET waitTime == WindowWaitTime(cleaned, now) IN
                   /\ now' = now + waitTime
                   /\ waits' = Append(waits, waitTime)
                   /\ requestTimes' = InWindow(cleaned, now + waitTime)
              ELSE /\ now' = now
                   /\ waits' = waits
                   /\ requestTimes' = cleaned
  /\ pc' = "post"
  /\ UNCHANGED <<backoffUntil, consecutiveErrors, kind, sent, n429, startErrors,
                 thrown, content, response, callsLeft, nonGov>>

\* axios.post answered 200 with a text: recordRequest(), return the text
PostOk(bodies) ==
  /\ pc = "post"
  /\ sent < MaxSends
  /\ \E body \in bodies[kind] \ {Missing} : content' = body
  /\ sent' = sent + 1
  /\ LET r == recordRequest(requestTimes, consecutiveErrors, now) IN
     /\ requestTimes' = r.requestTimes
     /\ consecutiveErrors' = r.consecutiveErrors
  /\ pc' = "parse"
  /\ UNCHANGED <<now, backoffUntil, kind, attempt, n429, startErrors, waits, thrown,
                 response, callsLeft, nonGov>>

\* axios.post answered 200 without choices[0].message.content: a plain Error is
\* thrown inside the try, is no axios error, and is rethrown by the catch block
PostInvalid(bodies) ==
  /\ pc = "post"
  /\ sent < MaxSends
  /\ Missing \in bodies[kind]
  /\ sent' = sent + 1
  /\ thrown' = TerminalError
  /\ pc' = "clientCatch"
  /\ UNCHANGED <<now, requestTimes, backoffUntil, consecutiveErrors, kind, attempt,
                 n429, startErrors, waits, content, response, callsLeft, nonGov>>

\* axios.post failed with a 429: handle429Error(), attempt++, RetryableError
Post429(statuses) ==
  /\ pc = "post"
  /\ sent < MaxSends
  /\ 429 \in statuses
  /\ LET h == handle429Error(consecutiveErrors, now)
         slot == getTimeUntilNextSlot(requestTimes, h.backoffUntil, now)
     IN /\ consecutiveErrors' = h.consecutiveErrors
        /\ backoffUntil' = h.backoffUntil
        /\ requestTimes' = slot.times
        /\ attempt' = attempt + 1
        /\ thrown' = RetryableError(attempt + 1, MAX_RETRIES, slot.wait)
  /\ sent' = sent + 1
  /\ n429' = n429 + 1
  /\ pc' = "clientCatch"
  /\ UNCHANGED <<now, kind, startErrors, waits, content, response, callsLeft, nonGov>>

\* The error a failed axios.post (status other than 429) makes makeRequest throw
ThrownFor(status, att, jitter) ==
  IF status = 401
    THEN IF att < MAX_RETRIES
           THEN RetryableError(att + 1, MAX_RETRIES,
                               calculateBackoff(att + 1, 2000, status, jitter))
           ELSE TerminalError
  ELSE IF status = 500
    THEN IF att < MAX_RETRIES
           THEN RetryableError(att + 1, MAX_RETRIES,
                               calculateBackoff(att + 1, 3000, status, jitter))
           ELSE TerminalError
  ELSE IF isRetryableError(status) /\ att < MAX_RETRIES
    THEN RetryableError(att + 1, MAX_RETRIES,
                        calculateBackoff(att + 1, 1000, status, jitter))
  ELSE TerminalError

\* axios.post failed with another status, or with none
PostError(statuses) ==
  /\ pc = "post"
  /\ sent < MaxSends
  /\ \E status \in statuses \ {429}, jitter \in Jitters :
       LET e == ThrownFor(status, attempt, jitter) IN
       /\ thrown' = e
       /\ attempt' = IF e.name = "RetryableError" THEN attempt + 1 ELSE attempt
  /\ sent' = sent + 1
  /\ pc' = "clientCatch"
  /\ UNCHANGED <<now, requestTimes, backoffUntil, consecutiveErrors, kind, n429,
                 startErrors, waits, content, response, callsLeft, nonGov>>

\* listSalons / getSalonDetails: catch (error) { if (error instanceof RetryableError)
\*   { await setTimeout(error.nextRetryMs); continue; } ... }
RetrySleep ==
  /\ pc = "clientCatch"
  /\ thrown.name = "RetryableError"
  /\ now' = now + thrown.nextRetryMs
  /\ waits' = Append(waits, thrown.nextRetryMs)
  /\ thrown' = NoError
  /\ pc' = "makeRequest"
  /\ UNCHANGED <<requestTimes, backoffUntil, consecutiveErrors, kind, attempt, sent,
                 n429, startErrors, content, response, callsLeft, nonGov>>

\* The catch block of either route, applied to the error that reached it
RouteCatch(error) ==
  IF error.name = "RetryableError"
    THEN [status |-> 503, isRetrying |-> TRUE, attempt |-> error.attempt,
          maxAttempts |-> error.maxAttempts,
          nextRetryIn |-> (error.nextRetryMs + 500) \div 1000]
    ELSE [status |-> 500]

\* ... `throw error` in the client: the error reaches the route, which answers
ClientRethrow ==
  /\ pc = "clientCatch"
  /\ thrown.name # "RetryableError"
  /\ response' = RouteCatch(thrown)
  /\ pc' = "done"
  /\ UNCHANGED <<now, requestTimes, backoffUntil, consecutiveErrors, kind, attempt,
                 sent, n429, startErrors, waits, thrown, content, callsLeft, nonGov>>

--------------------------------------------------------------------------
(* lib/claudeProcessor.ts: the Google Places client (enrichWithGooglePlaces) *)

GOOGLE_PLACES_API_KEY == "gk"
THUMBNAIL_WIDTH == 400
THUMBNAIL_HEIGHT == 300

\* time.replace(/(\d{2})(\d{2})/, '$1:$2'): a colon inside the first run of four digits
RECURSIVE ColonAt(_, _)
ColonAt(t, i) ==
  IF i + 3 > Len(t) THEN t
  ELSE IF \A k \in i..(i + 3) : IsDigit(Char(t, k))
    THEN SubSeq(t, 1, i + 1) \o ":" \o SubSeq(t, i + 2, Len(t))
    ELSE ColonAt(t, i + 1)
FormatTime(t) == ColonAt(t, 1)

daysOfWeek == <<"sunday", "monday", "tuesday", "wednesday", "thursday", "friday",
                "saturday">>
closedDay == [open |-> "closed", close |-> "closed"]
defaultHours == [d \in {daysOfWeek[i] : i \in 1..7} |-> closedDay]

RECURSIVE ApplyPeriods(_, _)
\* openingHours.periods.forEach(...)
ApplyPeriods(hours, periods) ==
  IF periods = <<>> THEN hours
  ELSE LET period == Head(periods)
           next ==
             IF Has(period, "open") /\ Has(period.open, "day")
               THEN LET day == daysOfWeek[period.open.day + 1]
                        openTime == IF TruthyStr(period.open, "time")
                                      THEN FormatTime(period.open.time) ELSE "closed"
                        closeTime == IF Has(period, "close") /\ TruthyStr(period.close, "time")
                                       THEN FormatTime(period.close.time) ELSE "closed"
                    IN [hours EXCEPT ![day] = [open |-> openTime, close |-> closeTime]]
               ELSE hours
       IN ApplyPeriods(next, Tail(periods))

formatBusinessHours(openingHours) ==
  IF ~Has(openingHours, "periods") THEN defaultHours
  ELSE ApplyPeriods(defaultHours, openingHours.periods)

\* The Google Places Photo URL built from one photo reference
PhotoUrl(ref) ==
  "https://maps.googleapis.com/maps/api/place/photo?maxwidth=" \o ToString(THUMBNAIL_WIDTH)
    \o "&maxheight=" \o ToString(THUMBNAIL_HEIGHT)
    \o "&photoreference=" \o ref \o "&key=" \o GOOGLE_PLACES_API_KEY

RECURSIVE PhotoUrls(_)
\* photos.map(photo => photo.photo_reference ? url : null).filter(url => url !== null)
PhotoUrls(photos) ==
  IF photos = <<>> THEN <<>>
  ELSE (IF TruthyStr(Head(photos), "photo_reference")
          THEN <<PhotoUrl(Head(photos).photo_reference)>> ELSE <<>>)
       \o PhotoUrls(Tail(photos))

\* placeData.photos.slice(0, 3).map(...).filter(...)
GoogleThumbnails(photos) == PhotoUrls(Slice(photos, 3))

\* Thumbnails filled from Google only when the record has none (tests C5)
ThumbnailsFilledWhenMissing(salon, placeData) ==
  IF Has(salon, "thumbnails") /\ Len(salon.thumbnails) > 0 THEN salon.thumbnails
  ELSE IF Has(placeData, "photos") THEN GoogleThumbnails(placeData.photos)
  ELSE <<>>

\* Google's thumbnails added to those of the record (tests C6)
ThumbnailsAccumulated(salon, placeData) ==
  (IF Has(salon, "thumbnails") THEN salon.thumbnails ELSE <<>>)
    \o (IF Has(placeData, "photos") THEN GoogleThumbnails(placeData.photos) ELSE <<>>)

\* thumbnails of the enriched record
EnrichedThumbnails(salon, placeData) ==
  IF Has(placeData, "photos") /\ Len(placeData.photos) > 0 /\ GOOGLE_PLACES_API_KEY # ""
    THEN GoogleThumbnails(placeData.photos)
    ELSE IF Has(salon, "thumbnails") THEN salon.thumbnails ELSE <<>>

\* The record `enrichedSalon` built from salon and a found placeData
EnrichMerge(salon, placeData) ==
  LET hasCoords == TruthyNum(placeData, "lat") /\ TruthyNum(placeData, "lng")
      over ==
        Field(TruthyStr(placeData, "name") \/ Has(salon, "name"), "name",
              IF TruthyStr(placeData, "name") THEN placeData.name ELSE salon.name)
        @@ Field(TruthyStr(placeData, "formatted_address") \/ Has(salon, "address"),
                 "address",
                 IF TruthyStr(placeData, "formatted_address")
                   THEN placeData.formatted_address ELSE salon.address)
        @@ Field(hasCoords \/ Has(salon, "coordinates"), "coordinates",
                 IF hasCoords
                   THEN [latitude |-> placeData.lat, longitude |-> placeData.lng]
                   ELSE salon.coordinates)
        @@ Field(TruthyNum(placeData, "rating") \/ Has(salon, "rating"), "rating",
                 IF TruthyNum(placeData, "rating")
                   THEN [stars |-> placeData.rating,
                         numberOfReviewers |->
                           IF TruthyNum(placeData, "user_ratings_total")
                             THEN placeData.user_ratings_total ELSE 0]
                   ELSE salon.rating)
        @@ ("services" :> (IF Has(salon, "services") THEN salon.services ELSE <<>>))
        @@ ("priceRange" :> (IF TruthyStr(salon, "priceRange") THEN salon.priceRange ELSE ""))
        @@ ("serviceCategories" :>
              (IF Has(salon, "serviceCategories") THEN salon.serviceCategories ELSE <<>>))
        @@ ("thumbnails" :> EnrichedThumbnails(salon, placeData))
        @@ Field(TruthyStr(placeData, "formatted_phone_number") \/ Has(salon, "contactNumber"),
                 "contactNumber",
                 IF TruthyStr(placeData, "formatted_phone_number")
                   THEN placeData.formatted_phone_number ELSE salon.contactNumber)
        @@ Field(TruthyStr(placeData, "website") \/ Has(salon, "website"), "website",
                 IF TruthyStr(placeData, "website") THEN placeData.website ELSE salon.website)
        @@ Field(Has(placeData, "opening_hours") \/ Has(salon, "businessHours"),
                 "businessHours",
                 IF Has(placeData, "opening_hours")
                   THEN formatBusinessHours(placeData.opening_hours)
                   ELSE salon.businessHours)
  IN over @@ salon

--------------------------------------------------------------------------
(* lib/serverCache.ts *)

CACHE_EXPIRY_HOURS == 168        \* 24 * 7

\* str.toLowerCase().trim().replace(/[^a-z0-9]/g, '_')
RECURSIVE ReplaceNonAlnum(_, _)
\* str.replace(/[^a-z0-9]/g, '_'), or with the i flag when ignoreCase
ReplaceNonAlnum(str, ignoreCase) ==
  IF str = "" THEN ""
  ELSE LET c == Char(str, 1)
           keep == IsLower(c) \/ IsDigit(c) \/ (ignoreCase /\ IsUpper(c))
       IN (IF keep THEN c ELSE "_") \o ReplaceNonAlnum(SubSeq(str, 2, Len(str)), ignoreCase)

sanitizeForFilename(str) == ReplaceNonAlnum(Trim(ToLowerCase(str)), FALSE)

\* An entry expiring the moment its age equals the window (tests C8)
isExpiredAtWindow(timestamp, t) == t - timestamp >= CACHE_EXPIRY_HOURS * 60 * 60 * 1000

\* isExpired, at time t
isExpired(timestamp, t) == t - timestamp > CACHE_EXPIRY_HOURS * 60 * 60 * 1000

\* placeId is <<>> (undefined) or <<id>>
getSalonDetailsCacheKey(placeId, salonName, model) ==
  LET id == IF placeId # <<>> /\ placeId[1] # "" THEN placeId[1]
            ELSE sanitizeForFilename(salonName)
  IN id \o "_" \o ReplaceNonAlnum(model, TRUE)

DetailsFile(placeId, salonName, model) ==
  getSalonDetailsCacheKey(placeId, salonName, model) \o ".json"
ListFile(suburb) == sanitizeForFilename(suburb) \o ".json"

NoFile == [nofile |-> TRUE]
Null == [null |-> TRUE]
NoOp == [op |-> "none"]

\* the files of a directory without one of them (fs.unlink)
Unlink(dir, file) == [f \in (DOMAIN dir) \ {file} |-> dir[f]]
\* fs.writeFile
WriteFile(dir, file, data) == (file :> data) @@ dir

\* getSalonDetailsCacheKey throws (undefined.toLowerCase()) when there is neither
\* a place id nor a name to build the key from
CacheKeyThrows(placeId, salon) ==
  (placeId = <<>> \/ placeId[1] = "") /\ ~Has(salon, "name")

\* saveSalonDetails with fs.access asked after fs.writeFile (tests C19)
saveSalonDetailsAccessAfterWrite(dir, salon, model, placeId, t) ==
  IF CacheKeyThrows(placeId, salon)
    THEN [dir |-> dir, file |-> "", log |-> "", threw |-> TRUE]
  ELSE LET file == DetailsFile(placeId, salon.name, model)
           cacheData == [salon |-> salon, timestamp |-> t, model |-> model]
                          @@ Opt("placeId", placeId)
           written == WriteFile(dir, file, cacheData)
           exists == file \in DOMAIN written
       IN [dir |-> written,
           file |-> file,
           log |-> IF exists THEN "Updated" ELSE "Created",
           threw |-> FALSE]

\* saveSalonDetails: the directory afterwards, what it logged, whether it threw.
\* The file holds JSON.stringify(cacheData): a key whose value is undefined is left out.
saveSalonDetails(dir, salon, model, placeId, t) ==
  IF CacheKeyThrows(placeId, salon)
    THEN [dir |-> dir, file |-> "", log |-> "", threw |-> TRUE]
  ELSE LET file == DetailsFile(placeId, salon.name, model)
           cacheData == [salon |-> salon, timestamp |-> t, model |-> model]
                          @@ Opt("placeId", placeId)
           exists == file \in DOMAIN dir
       IN [dir |-> WriteFile(dir, file, cacheData),
           file |-> file,
           log |-> IF exists THEN "Updated" ELSE "Created",
           threw |-> FALSE]

\* getSalonDetails: the directory afterwards, and the value returned
getSalonDetails(dir, placeId, salonName, model, t) ==
  LET file == DetailsFile(placeId, salonName, model) IN
  IF file \notin DOMAIN dir THEN [dir |-> dir, file |-> file, result |-> Null]
  ELSE IF isExpired(dir[file].timestamp, t)
    THEN [dir |-> Unlink(dir, file), file |-> file, result |-> Null]
    ELSE [dir |-> dir, file |-> file, result |-> dir[file].salon]

\* index.findIndex(entry => entry.suburb === suburb), 0 when there is none
FindIndex(index, suburb) ==
  IF \E i \in 1..Len(index) : index[i].suburb = suburb
    THEN CHOOSE i \in 1..Len(index) :
           /\ index[i].suburb = suburb
           /\ \A j \in 1..(i - 1) : index[j].suburb # suburb
    ELSE 0

RECURSIVE InsertByTimestamp(_, _)
\* one insertion step of the stable sort below
InsertByTimestamp(sorted, e) ==
  IF sorted = <<>> THEN <<e>>
  ELSE IF Head(sorted).timestamp >= e.timestamp
    THEN <<Head(sorted)>> \o InsertByTimestamp(Tail(sorted), e)
    ELSE <<e>> \o sorted
RECURSIVE SortByTimestamp(_, _)
\* index.sort((a, b) => b.timestamp - a.timestamp): most recent first, stable
SortByTimestamp(index, acc) ==
  IF index = <<>> THEN acc
  ELSE SortByTimestamp(Tail(index), InsertByTimestamp(acc, Head(index)))

\* the index file that holds the JSON of `entries`
IndexFile(entries) == [entries |-> entries]

\* updateIndex: the index file afterwards (model is <<>> when undefined)
updateIndex(indexFile, suburb, count, model, t) ==
  LET index == IF indexFile = NoFile THEN <<>> ELSE indexFile.entries
      existingIndex == FindIndex(index, suburb)
      metadata == [suburb |-> suburb, count |-> count, timestamp |-> t]
                    @@ Opt("model", model)
      updated == IF existingIndex >= 1 THEN [index EXCEPT ![existingIndex] = metadata]
                 ELSE Append(index, metadata)
  IN IndexFile(SortByTimestamp(updated, <<>>))

\* removeFromIndex: the index file afterwards
removeFromIndex(indexFile, suburb) ==
  IF indexFile = NoFile THEN NoFile
  ELSE IndexFile(SelectSeq(indexFile.entries, LAMBDA entry : entry.suburb # suburb))

\* saveSalonList: the list directory and the index file afterwards
saveSalonList(dir, indexFile, suburb, salons, model, t) ==
  LET cacheData == [suburb |-> suburb, salons |-> salons, timestamp |-> t]
                     @@ Opt("model", model)
  IN [dir |-> WriteFile(dir, ListFile(suburb), cacheData),
      index |-> updateIndex(indexFile, suburb, Len(salons), model, t)]

\* deleteSalonList: unlink, then removeFromIndex; nothing when the file is missing
deleteSalonList(dir, indexFile, suburb) ==
  IF ListFile(suburb) \notin DOMAIN dir THEN [dir |-> dir, index |-> indexFile]
  ELSE [dir |-> Unlink(dir, ListFile(suburb)),
        index |-> removeFromIndex(indexFile, suburb)]

\* getSalonList: the directory and index afterwards, and the value returned
getSalonList(dir, indexFile, suburb, t) ==
  LET file == ListFile(suburb) IN
  IF file \notin DOMAIN dir THEN [dir |-> dir, index |-> indexFile, result |-> Null]
  ELSE IF isExpired(dir[file].timestamp, t)
    THEN deleteSalonList(dir, indexFile, suburb) @@ [result |-> Null]
    ELSE [dir |-> dir, index |-> indexFile, result |-> dir[file]]

\* getAllCached: the index file afterwards, and the entries returned
getAllCached(indexFile, t) ==
  IF indexFile = NoFile THEN [index |-> NoFile, result |-> <<>>]
  ELSE LET validEntries ==
             SelectSeq(indexFile.entries, LAMBDA e : ~isExpired(e.timestamp, t))
       IN [index |-> IF Len(validEntries) < Len(indexFile.entries)
                       THEN IndexFile(validEntries) ELSE indexFile,
           result |-> validEntries]

\* An empty .cache directory
InitCache ==
  /\ detailsCache = <<>>
  /\ listCache = <<>>
  /\ cacheIndex = NoFile
  /\ lastOp = NoOp
  /\ cacheOps = 0

--------------------------------------------------------------------------
(* The environment: the callers' requests, the upstream's replies, what Google
   Places and /api/process-thumbnails answer. *)

\* research-suburb requests: a suburb (or none) and an optional model
ListRequests ==
  {[suburb |-> s, model |-> m] : s \in {"Newtown", ""}, m \in {<<>>, <<"sonar-pro">>}}

(* Texts the upstream answers a list request with, for example:
     ["Bella Hair", "Hi Salon (duplicate)", "Bella Hair", "Hair Salons:"]
     ["Hair Salons:", "[1]"]
     ["1"]
     {"items": ["Bella Hair Newtown", "Hi Salon"]}
     ???                                                                    *)
ListBodies ==
  {Missing,
   [parsed |-> ParsedArray(<<"Bella Hair", "Hi Salon (duplicate)", "Bella Hair",
                             "Hair Salons:">>),
    extracted |-> <<"Bella Hair", "Hi Salon (duplicate)">>],
   [parsed |-> ParsedArray(<<"Hair Salons:", "[1]">>), extracted |-> <<"Hair Salons:">>],
   [parsed |-> ParsedArray(<<"1">>), extracted |-> <<>>],
   [parsed |-> ParsedObject([items |-> <<"Bella Hair Newtown", "Hi Salon">>]),
    extracted |-> <<"Bella Hair Newtown", "Hi Salon">>],
   [parsed |-> ParseFailure, extracted |-> <<>>]}

\* fetch-salon-details requests
DetailRequests ==
  {[salon |-> s, suburb |-> "Newtown", model |-> m, skipCache |-> sc,
    forceProcessThumbnails |-> f] :
     s \in {[name |-> "Bella Hair"], [name |-> "Bella Hair", placeId |-> "ChIJ1"],
            [placeId |-> "ChIJ1"]},
     m \in {<<>>, <<"sonar-pro">>}, sc \in BOOLEAN, f \in BOOLEAN}

\* Records the upstream describes a salon with (parsed), and a text without JSON
CompleteRecord ==
  [name |-> "Bella Hair", address |-> "12 King St, Newtown",
   coordinates |-> [latitude |-> -33, longitude |-> 151],
   rating |-> [stars |-> 40, numberOfReviewers |-> 10],
   thumbnails |-> <<"https://cdn.fresha.com/a.jpg">>]
DetailBodies ==
  {[parsed |-> ParsedObject(CompleteRecord)],
   [parsed |-> ParsedObject([name |-> "Bella Hair"])],
   [parsed |-> ParsedObject([name |-> "Hair Salons", address |-> "1"])],
   [parsed |-> ParsedObject([address |-> "12 King St, Newtown"])],
   [parsed |-> ParseFailure]}

\* What Google Places knows of the salon
Places ==
  {[name |-> "Bella Hair Studio", rating |-> 45, user_ratings_total |-> 120,
    lat |-> -34, lng |-> 152,
    photos |-> <<[photo_reference |-> "refA"], [photo_reference |-> "refB"]>>],
   [name |-> "Bella Hair", formatted_phone_number |-> "(02) 9111 1111"]}

\* What /api/process-thumbnails answers
ThumbnailReplies ==
  {[localThumbnails |-> <<"/thumbnails/bella_hair_0.jpg">>,
    blobUrls |-> <<"https://blob.example/bella_hair_0.jpg">>],
   [localThumbnails |-> <<"/thumbnails/bella_hair_0.jpg">>],
   [error |-> "Failed to process thumbnails"]}

\* The reduced environment of the runs that follow the request governor
GovBodies ==
  [list |-> ListBodies,
   details |-> {Missing, [parsed |-> ParsedObject(CompleteRecord)]}]
GovDetailRequests ==
  {[salon |-> [name |-> "Bella Hair"], suburb |-> "Newtown", model |-> <<>>,
    skipCache |-> TRUE, forceProcessThumbnails |-> FALSE]}

--------------------------------------------------------------------------
(* lib/salonDataValidator.ts.  The patterns are the source's regular
   expressions, in the order of the source. *)

\* the pattern of line 19
cleanAnnotations ==
  RCat(<<RStar(RSpace), RLit("("), RStar(RSet(TRUE, {")"}, FALSE, FALSE, FALSE,
    FALSE)), RAlt(<<RLit("already listed"), RLit("duplicate"), RLit("incomplete"),
    RLit("appears to be"), RLit("same as"), RLit("excluded"), RLit("barber"),
    RLit("barbershop"), RLit("also listed"), RLit("also offers"),
    RLit("not directly relevant"), RLit("not a spa"), RLit("need to check"),
    RCat(<<RLit("in"), RPlus(RSpace), RPlus(RWord), ROpt(RLit(",")), RStar(RSpace),
    RLit("not"), RPlus(RSpace), RLit("Newtown")>>), RCat(<<RLit("in"), RPlus(RSpace),
    RPlus(RWord), ROpt(RLit(",")), RStar(RSpace), RLit("excluded")>>)>>), RLit(")")>>)

\* the pattern of line 22
cleanOtherAreas ==
  RCat(<<RStar(RSpace), RLit("("), RStar(RSet(TRUE, {")"}, FALSE, FALSE, FALSE,
    FALSE)), RAlt(<<RCat(<<RLit("not"), RPlus(RSpace), RLit("in")>>), RCat(<<RLit("in"),
    RPlus(RSpace), RAlt(<<RLit("Glebe"), RLit("Petersham"), RLit("Erskineville"),
    RLit("Eveleigh"), RLit("Marrickville"), RLit("Camperdown"), RLit("Stanmore"),
    RLit("Enmore"), RLit("Redfern"), RLit("Balmain"), RLit("Chippendale"),
    RLit("Pyrmont"), RLit("Haymarket"), RLit("Sydney CBD"), RLit("Waterloo")>>)>>)>>),
    RStar(RSet(TRUE, {")"}, FALSE, FALSE, FALSE, FALSE)), RLit(")")>>)

\* /\s*\((?:Newtown|Newtown\s+location|has\s+a\s+Newtown\s+location)\)/gi
cleanLocationMarkers ==
  RCat(<<RStar(RSpace), RLit("("), RAlt(<<RLit("Newtown"), RCat(<<RLit("Newtown"),
    RPlus(RSpace), RLit("location")>>), RCat(<<RLit("has"), RPlus(RSpace), RLit("a"),
    RPlus(RSpace), RLit("Newtown"), RPlus(RSpace), RLit("location")>>)>>), RLit(")")>>)

\* /\s*\((?:hair\s+salon|nail\s+salon|beauty\s+salon|spa|massage)\)/gi
cleanCategoryLabels ==
  RCat(<<RStar(RSpace), RLit("("), RAlt(<<RCat(<<RLit("hair"), RPlus(RSpace),
    RLit("salon")>>), RCat(<<RLit("nail"), RPlus(RSpace), RLit("salon")>>),
    RCat(<<RLit("beauty"), RPlus(RSpace), RLit("salon")>>), RLit("spa"),
    RLit("massage")>>), RLit(")")>>)

\* /\s*\([^)]*(?:this|though|as|but|may|need|based|confirmed)\)/gi
cleanNotes ==
  RCat(<<RStar(RSpace), RLit("("), RStar(RSet(TRUE, {")"}, FALSE, FALSE, FALSE,
    FALSE)), RAlt(<<RLit("this"), RLit("though"), RLit("as"), RLit("but"), RLit("may"),
    RLit("need"), RLit("based"), RLit("confirmed")>>), RLit(")")>>)

\* the pattern of line 34
cleanTrailing ==
  RCat(<<RStar(RSpace), RLit("-"), RStar(RSpace), RAlt(<<RLit("already listed"),
    RLit("duplicate"), RLit("incomplete"), RLit("appears to be"), RLit("same as"),
    RLit("excluded"), RLit("need to check")>>), RStar(RAny)>>)

\* /\.{2,}$/
cleanEllipsis ==
  RCat(<<RLit(".."), RStar(RLit(".")), REol>>)

\* /\s+/g
cleanSpaces ==
  RPlus(RSpace)

\* the pattern of line 78
addressPattern ==
  RCat(<<RBol, RPlus(RDigit), RSet(FALSE, {"/"}, FALSE, FALSE, FALSE, TRUE),
    RPlus(RWord), RPlus(RSpace), RAlt(<<RLit("Street"), RLit("St"), RLit("Road"),
    RLit("Rd"), RLit("Avenue"), RLit("Ave"), RLit("Lane"), RLit("Ln"), RLit("Drive"),
    RLit("Dr"), RLit("Place"), RLit("Pl")>>), ROpt(RLit(",")), RPlus(RSpace),
    RPlus(RWord), REol>>)

\* the pattern of line 83
servicePattern ==
  RCat(<<RBol, RAlt(<<RLit("Beard Trimming"), RLit("Men's Shaving"),
    RLit("Head Shave"), RLit("Men's Haircut"), RLit("Gel Nails"), RLit("Manicure"),
    RLit("Nail Art"), RLit("Pedicure"), RLit("Fish Pedicure"), RLit("Dermaplaning"),
    RLit("Microdermabrasion"), RLit("Threading"), RLit("Acne Facial"),
    RLit("Henna Tattoos"), RLit("Eyelash Extensions"), RLit("Brow Lamination"),
    RLit("Eyebrow Shaping"), RLit("LED Light Therapy"), RLit("Hair Transplants"),
    RLit("Laser Hair Removal"), RLit("Dermal Fillers"), RLit("Blow Dry"),
    RLit("Hair Extensions"), RLit("Balayage"), RLit("Children's Haircut"),
    RLit("Makeup Service"), RLit("Facial"), RLit("Brow Shape"),
    RLit("Rejuvenating Facial")>>)>>)

\* /^[A-Z][a-z]+$/
singleCapitalizedWord ==
  RCat(<<RBol, RSet(FALSE, {}, FALSE, TRUE, FALSE, FALSE), RPlus(RSet(FALSE, {}, TRUE,
    FALSE, FALSE, FALSE)), REol>>)

\* /[a-zA-Z]/
anyLetter ==
  RSet(FALSE, {}, TRUE, TRUE, FALSE, FALSE)

\* the pattern of line 285
outOfAreaPattern ==
  RCat(<<RLit("("), ROpt(RCat(<<RLit("in"), RPlus(RSpace), RAlt(<<RLit("Glebe"),
    RLit("Petersham"), RLit("Erskineville"), RLit("Eveleigh"), RLit("Marrickville"),
    RLit("Camperdown"), RLit("Stanmore"), RLit("Enmore"), RLit("Redfern")>>),
    ROpt(RLit(",")), RStar(RSpace)>>)), RLit("not"), RPlus(RSpace),
    ROpt(RCat(<<RLit("in"), RPlus(RSpace)>>)), RLit("Newtown)")>>)

locationPatterns ==
  << [re |-> RCat(<<RWb, RLit("in"), RPlus(RSpace), RSet(FALSE, {}, FALSE, TRUE,
       FALSE, FALSE), RPlus(RSet(FALSE, {}, TRUE, FALSE, FALSE, FALSE)),
       ROpt(RLit(",")), RPlus(RSpace), RAlt(<<RLit("NSW"), RLit("VIC"), RLit("QLD"),
       RLit("SA"), RLit("WA"), RLit("TAS"), RLit("NT"), RLit("ACT")>>)>>), ci |-> FALSE],
     [re |-> RCat(<<RWb, RLit("Australia"), RWb, RStar(RAny), RWb, RLit("Australia"),
       RWb>>), ci |-> TRUE],
     [re |-> RCat(<<RWb, RAlt(<<RLit("locate"), RLit("find"), RLit("search"),
       RLit("list")>>), RWb>>), ci |-> TRUE],
     [re |-> RCat(<<RWb, RAlt(<<RLit("all"), RLit("every"), RLit("each"),
       RLit("any")>>), RPlus(RSpace), RLit("salon"), ROpt(RLit("s")), RWb>>),
       ci |-> TRUE] >>

invalidPatterns ==
  << [re |-> RCat(<<RBol, ROpt(RLit("[")), RPlus(RDigit), ROpt(RLit("]")), REol>>),
       ci |-> FALSE],
     [re |-> RCat(<<RBol, RLit("from"), RPlus(RSpace), RLit("[")>>), ci |-> TRUE],
     [re |-> RCat(<<RBol, RLit("reference"), RPlus(RSpace)>>), ci |-> TRUE],
     [re |-> RCat(<<RBol, RLit("result"), RPlus(RSpace), RPlus(RDigit)>>),
       ci |-> TRUE],
     [re |-> RCat(<<RBol, RLit("okay"), RStar(RSpace), ROpt(RLit(",")), RStar(RSpace),
       RLit("i")>>), ci |-> TRUE],
     [re |-> RCat(<<RBol, RLit("the"), RPlus(RSpace), RLit("user")>>), ci |-> TRUE],
     [re |-> RCat(<<RBol, RLit("here"), RPlus(RSpace), RAlt(<<RLit("are"),
       RLit("is")>>)>>), ci |-> TRUE],
     [re |-> RCat(<<RBol, RLit("based"), RPlus(RSpace), RLit("on")>>), ci |-> TRUE],
     [re |-> RCat(<<RBol, RLit("according"), RPlus(RSpace), RLit("to")>>),
       ci |-> TRUE],
     [re |-> RCat(<<RBol, RStar(RSpace), RLit("<"), RStar(RAny), RLit(">"),
       RStar(RSpace), REol>>), ci |-> FALSE],
     [re |-> RCat(<<RBol, RLit(Fence)>>), ci |-> FALSE],
     [re |-> RCat(<<RBol, RLit("list"), RPlus(RSpace), ROpt(RCat(<<RLit("of"),
       RPlus(RSpace)>>)), RStar(RAny), RLit("salon"), ROpt(RLit("s")), RPlus(RSpace),
       RLit("in")>>), ci |-> TRUE],
     [re |-> RCat(<<RBol, RLit("find"), RPlus(RSpace), RStar(RAny), RLit("salon"),
       ROpt(RLit("s")), RPlus(RSpace), RLit("in")>>), ci |-> TRUE],
     [re |-> RCat(<<RBol, RLit("search"), RPlus(RSpace), RLit("for"), RPlus(RSpace),
       RStar(RAny), RLit("salon"), ROpt(RLit("s"))>>), ci |-> TRUE],
     [re |-> RCat(<<RBol, RLit("salon"), RPlus(RSpace), RLit("name"), RPlus(RSpace),
       RPlus(RDigit), REol>>), ci |-> TRUE],
     [re |-> RCat(<<RBol, RLit("example"), RPlus(RSpace), RLit("salon")>>),
       ci |-> TRUE],
     [re |-> RCat(<<RBol, RLit("let"), RPlus(RSpace), RLit("me"), RPlus(RSpace)>>),
       ci |-> TRUE],
     [re |-> RCat(<<RBol, RLit("i"), RPlus(RSpace), RAlt(<<RLit("need"), RLit("will"),
       RLit("should"), RLit("must")>>), RPlus(RSpace)>>), ci |-> TRUE],
     [re |-> RCat(<<RBol, RLit("now"), RPlus(RSpace), RLit("i"), RAlt(<<RLit("'ll"),
       RLit("'ll"), RLit("ll")>>), RPlus(RSpace)>>), ci |-> TRUE],
     [re |-> RCat(<<RBol, RLit("beauty"), RPlus(RSpace), RLit("salon"),
       ROpt(RLit("s")), ROpt(RLit(":")), REol>>), ci |-> TRUE],
     [re |-> RCat(<<RBol, RLit("hair"), RPlus(RSpace), RLit("salon"), ROpt(RLit("s")),
       ROpt(RLit(":")), REol>>), ci |-> TRUE],
     [re |-> RCat(<<RBol, RLit("nail"), RPlus(RSpace), RLit("salon"), ROpt(RLit("s")),
       ROpt(RLit(":")), REol>>), ci |-> TRUE],
     [re |-> RCat(<<RBol, RLit("day"), RPlus(RSpace), RLit("spa"), ROpt(RLit("s")),
       RStar(RAny), ROpt(RLit(":")), REol>>), ci |-> TRUE],
     [re |-> RCat(<<RBol, RLit("lash"), RPlus(RSpace), RLit("and"), RPlus(RSpace),
       RLit("brow"), RStar(RAny), ROpt(RLit(":")), REol>>), ci |-> TRUE],
     [re |-> RCat(<<RBol, RLit("skin"), RPlus(RSpace), RLit("clinic"),
       ROpt(RLit("s")), RStar(RAny), ROpt(RLit(":")), REol>>), ci |-> TRUE],
     [re |-> RCat(<<RBol, RLit("spa"), ROpt(RLit("s")), ROpt(RLit(":")), REol>>),
       ci |-> TRUE],
     [re |-> RCat(<<RBol, RLit("exclude"), RPlus(RSpace)>>), ci |-> TRUE],
     [re |-> RCat(<<RBol, RLit("deduplicate"), RPlus(RSpace)>>), ci |-> TRUE],
     [re |-> RCat(<<RBol, RLit("use"), RPlus(RSpace), RLit("the"), RPlus(RSpace),
       RLit("exact")>>), ci |-> TRUE],
     [re |-> RCat(<<RBol, RLit("all"), RPlus(RSpace), RLit("other"), ROpt(RLit("s")),
       RPlus(RSpace), RLit("appear")>>), ci |-> TRUE],
     [re |-> RCat(<<RBol, RLit("i"), RAlt(<<RLit("'ll"), RLit("'ll"), RLit("ll")>>),
       RPlus(RSpace), RLit("use"), RPlus(RSpace), RLit("the")>>), ci |-> TRUE],
     [re |-> RCat(<<RBol, RLit("test"), RPlus(RSpace), RLit("salon")>>), ci |-> TRUE],
     [re |-> RCat(<<RBol, RLit("sample"), RPlus(RSpace), RLit("salon")>>),
       ci |-> TRUE],
     [re |-> RCat(<<RBol, RLit("placeholder")>>), ci |-> TRUE],
     [re |-> RCat(<<RBol, RLit("beauty"), RPlus(RSpace), RLit("and"), RPlus(RSpace),
       RLit("hair"), RPlus(RSpace), RLit("salon"), ROpt(RLit("s")), RPlus(RSpace),
       RLit("in")>>), ci |-> TRUE],
     [re |-> RCat(<<RBol, RLit("hair"), RPlus(RSpace), RLit("salon"), ROpt(RLit("s")),
       RPlus(RSpace), RLit("in")>>), ci |-> TRUE],
     [re |-> RCat(<<RBol, RLit("nail"), RPlus(RSpace), RLit("salon"), ROpt(RLit("s")),
       RPlus(RSpace), RLit("in")>>), ci |-> TRUE],
     [re |-> RCat(<<RBol, RLit("all"), RPlus(RSpace), RLit("salon"), ROpt(RLit("s")),
       RPlus(RSpace), RLit("in")>>), ci |-> TRUE],
     [re |-> RCat(<<RBol, RLit("this"), RPlus(RSpace), RLit("gives"), RPlus(RSpace),
       RLit("me")>>), ci |-> TRUE],
     [re |-> RCat(<<RBol, RLit("after"), RPlus(RSpace), RLit("removing")>>),
       ci |-> TRUE],
     [re |-> RCat(<<RBol, RLit("title"), RPlus(RSpace), RLit("(")>>), ci |-> TRUE],
     [re |-> RCat(<<RBol, RLit("summary"), RPlus(RSpace), RLit("paragraph")>>),
       ci |-> TRUE],
     [re |-> RCat(<<RBol, RLit("main"), RPlus(RSpace), RLit("body")>>), ci |-> TRUE],
     [re |-> RCat(<<RBol, RLit("conclusion"), RPlus(RSpace), RLit("(")>>),
       ci |-> TRUE],
     [re |-> RCat(<<RBol, RLit("i"), RAlt(<<RLit("'ll"), RLit("'ll"), RLit("ll")>>),
       RPlus(RSpace), RLit("make"), RPlus(RSpace), RLit("sure")>>), ci |-> TRUE],
     [re |-> RCat(<<RBol, RLit("newtown's"), RPlus(RSpace), RLit("hair"),
       RPlus(RSpace), RLit("salon"), RPlus(RSpace), RLit("scene")>>), ci |-> TRUE],
     [re |-> RCat(<<RWb, RAlt(<<RLit("NSW"), RLit("VIC"), RLit("QLD"), RLit("SA"),
       RLit("WA"), RLit("TAS"), RLit("NT"), RLit("ACT")>>), RLit(","), RPlus(RSpace),
       RLit("Australia"), ROpt(RLit(",")), RPlus(RSpace), RAlt(<<RLit("NSW"),
       RLit("VIC"), RLit("QLD"), RLit("SA"), RLit("WA"), RLit("TAS"), RLit("NT"),
       RLit("ACT")>>)>>), ci |-> TRUE] >>

metaTextPatterns ==
  << [re |-> RCat(<<RBol, RAlt(<<RLit("Hair"), RLit("Beauty"), RLit("Nail"),
       RLit("Day"), RLit("Lash"), RLit("Skin"), RLit("Massage")>>), RPlus(RSpace),
       RAlt(<<RCat(<<RLit("Salon"), ROpt(RLit("s"))>>), RCat(<<RLit("Studio"),
       ROpt(RLit("s"))>>), RCat(<<RLit("Clinic"), ROpt(RLit("s"))>>),
       RCat(<<RLit("Center"), ROpt(RLit("s"))>>), RCat(<<RLit("Spa"),
       ROpt(RLit("s"))>>)>>), RStar(RSpace), RLit("("), RPlus(RDigit), RLit("):")>>),
       ci |-> TRUE],
     [re |-> RCat(<<RBol, RLit("This gives me a total")>>), ci |-> TRUE],
     [re |-> RCat(<<RBol, RLit("After removing duplicates")>>), ci |-> TRUE],
     [re |-> RLit("is listed multiple times"), ci |-> TRUE],
     [re |-> RCat(<<RBol, RAlt(<<RLit("Title"), RLit("Summary"), RLit("Main Body"),
       RLit("Conclusion")>>), RStar(RSpace), RLit("(")>>), ci |-> TRUE],
     [re |-> RCat(<<RBol, RLit("They want")>>), ci |-> TRUE],
     [re |-> RCat(<<RBol, RLit("That's "), RPlus(RDigit), RLit(" businesses")>>),
       ci |-> TRUE],
     [re |-> RCat(<<RBol, RLit("So I have")>>), ci |-> TRUE],
     [re |-> RCat(<<RBol, RPlus(RDigit), RLit("/"), RPlus(RDigit), RPlus(RSpace),
       RPlus(RWord), RPlus(RSpace), RAlt(<<RLit("Street"), RLit("St"), RLit("Road"),
       RLit("Rd")>>)>>), ci |-> TRUE] >>

RECURSIVE RemoveEach(_, _)
\* name.replace(p, '') for each pattern p of `patterns` in turn (all are /gi)
RemoveEach(patterns, name) ==
  IF patterns = <<>> THEN name
  ELSE RemoveEach(Tail(patterns), Replace(Head(patterns), name, TRUE, "", TRUE))

\* the special case of line 37
ExpandBella(cleaned) ==
  IF ToLowerCase(cleaned) = "bella" THEN "Bella Beauty Salon" ELSE cleaned

cleanSalonName(name) ==
  Trim(Replace(cleanSpaces,
         Replace(cleanEllipsis,
           ExpandBella(RemoveEach(<<cleanAnnotations, cleanOtherAreas, cleanLocationMarkers,
                                    cleanCategoryLabels, cleanNotes, cleanTrailing>>,
                                  Trim(name))),
           FALSE, "", FALSE),
         FALSE, " ", TRUE))

reasoningStarts == {"They want", "That's ", "So I have"}
reasoningIncludes ==
  {"businesses that are confirmed", "user asked for", "Let me", "I need to", "I have",
   "I've", "I think", "I will", "I'll"}
incompleteNames == {"new", "bella", "african salon", "now", "menzone"}
validSingleWords == {"bob", "scissorhands", "noddys", "guilles"}
reasoningIncludesMore ==
  {"need to exclude", "need to check", "already listed", "appears to be",
   "location not specified", "but listed", "as per search results", "I need to",
   "Let me", "Now I", "should be excluded", "verify which", "go through",
   "compile this list", "extract the relevant", "check if", "organize them",
   "remove duplicates", "based on the criteria", "category:", "categories:"}
genericTerms ==
  {"thinking", "processing", "loading", "error", "undefined", "null", "none", "n/a",
   "not found", "unavailable", "hair salons", "beauty salons", "nail salons", "day spas",
   "lash studios", "skin clinics", "wellness centers", "massage centers",
   "lash extension studios", "massage parlors", "waxing and hair removal clinics",
   "makeup studios", "hair salons and barbershops"}

TestAny(patterns, str) ==
  \E k \in 1..Len(patterns) : Test(patterns[k].re, str, patterns[k].ci)

\* isValidSalonName, of a string (the caller decides `typeof name !== 'string'`)
isValidSalonName(name) ==
  LET trimmed == Trim(name)
      lowerName == ToLowerCase(trimmed)
  IN /\ ~(Len(trimmed) < 2 \/ Len(trimmed) > 100)
     /\ ~(\/ \E s \in reasoningStarts : StartsWith(trimmed, s)
          \/ \E s \in reasoningIncludes : Includes(trimmed, s))
     /\ ~Test(addressPattern, trimmed, TRUE)
     /\ ~Test(servicePattern, trimmed, TRUE)
     /\ ~(Len(trimmed) > 50 /\ TestAny(locationPatterns, trimmed))
     /\ ~AllDigits(trimmed)
     /\ ~(/\ lowerName \in incompleteNames \/ Test(singleCapitalizedWord, trimmed, FALSE)
          /\ lowerName \notin validSingleWords)
     /\ ~(\E s \in reasoningIncludesMore : Includes(trimmed, s))
     /\ ~TestAny(invalidPatterns, trimmed)
     /\ Test(anyLetter, trimmed, FALSE)
     /\ lowerName \notin genericTerms

\* The names that occur in these environments, and their verdicts evaluated once
KnownNames ==
  {b.parsed.object.name :
     b \in {x \in DetailBodies : Has(x.parsed, "object") /\ Has(x.parsed.object, "name")}}
    \cup {g.name : g \in {x \in Places : Has(x, "name")}}
    \cup {r.salon.name : r \in {x \in DetailRequests : Has(x.salon, "name")}}
validNames == [name \in KnownNames |-> isValidSalonName(name)] @@ <<>>
\* isValidSalonName(name), looked up when the name is a known one
NameIsValid(name) ==
  IF name \in DOMAIN validNames THEN validNames[name] ELSE isValidSalonName(name)

RECURSIVE Dedupe(_, _)
\* Array.from(new Set(seq)): first occurrences, in order
Dedupe(seq, acc) ==
  IF seq = <<>> THEN acc
  ELSE Dedupe(Tail(seq), IF Head(seq) \in Range(acc) THEN acc ELSE Append(acc, Head(seq)))

RECURSIVE CleanItems(_, _, _), CleanItem(_, _, _, _, _)
\* validateSalonList's loop over an array of strings
CleanItems(items, cleaned, issues) ==
  IF items = <<>> THEN [cleaned |-> cleaned, issues |-> issues]
  ELSE CleanItem(Head(items), cleanSalonName(Head(items)), Tail(items), cleaned, issues)
\* the body of the loop, for one item and its cleaned name
CleanItem(item, cleanedName, rest, cleaned, issues) ==
  IF \/ TestAny(metaTextPatterns, item)
     \/ Includes(item, "establishments if they exist")
     \/ Includes(item, "businesses that are confirmed")
    THEN CleanItems(rest, cleaned, Append(issues, "Skipped meta text: " \o item))
  ELSE IF Test(outOfAreaPattern, item, TRUE)
    THEN CleanItems(rest, cleaned, Append(issues, "Rejected out-of-area salon: " \o item))
  ELSE IF isValidSalonName(cleanedName)
    THEN CleanItems(rest, Append(cleaned, cleanedName), issues)
  ELSE IF Includes(item, "(") /\ Includes(item, ")")
    THEN CleanItems(rest, cleaned,
                    Append(issues, "Cleaned annotated item: " \o item \o " -> "
                             \o (IF cleanedName # "" THEN cleanedName ELSE "invalid")))
  ELSE CleanItems(rest, cleaned, Append(issues, "Rejected item: " \o item))

\* validateSalonList's verdict, from the loop's issues and the names it kept
ListVerdict(issues, cleaned, uniqueCleaned) ==
  LET removed == Len(cleaned) - Len(uniqueCleaned)
      issues1 == IF removed > 0
                   THEN Append(issues, "Removed " \o ToString(removed) \o " duplicates")
                   ELSE issues
      isValid == Len(uniqueCleaned) > 0
      issues2 == IF ~isValid
                   THEN Append(issues1, "No valid salon names found after cleaning")
                 ELSE IF Len(uniqueCleaned) = 1
                   THEN Append(issues1,
                          "Warning: Only 1 salon found - may need to retry with different model")
                 ELSE issues1
  IN [isValid |-> isValid, cleaned |-> uniqueCleaned, issues |-> issues2]
\* the part of validateSalonList after the loop
AfterLoop(r) == ListVerdict(r.issues, r.cleaned, Dedupe(r.cleaned, <<>>))

\* validateSalonList, of an array of strings
validateSalonList(data) == AfterLoop(CleanItems(data, <<>>, <<>>))

arrayFields == {"services", "serviceCategories", "thumbnails"}
stringFields == {"description", "primaryService", "contactNumber", "contactEmail",
                 "website", "instagram", "bookingLink", "priceRange"}

\* a non-blank string that is not a bare number
PlainText(str) == Len(Trim(str)) > 0 /\ ~AllDigits(Trim(str))

\* validateSalonDetails.  Ratings are in tenths of a star (45 is 4.5): 0..5 is 0..50.
validateSalonDetails(salon) ==
  IF ~(Has(salon, "name") /\ NameIsValid(salon.name))
    THEN [isValid |-> FALSE, cleaned |-> salon,
          issues |-> <<"Invalid or missing salon name">>]
  ELSE
    LET addressGiven == TruthyStr(salon, "address")
        addressOk == addressGiven /\ ~AllDigits(Trim(salon.address))
                       /\ Len(Trim(salon.address)) > 5
        coordsGiven == Has(salon, "coordinates")
        coordsOk == /\ coordsGiven
                    /\ Has(salon.coordinates, "latitude")
                    /\ Has(salon.coordinates, "longitude")
                    /\ salon.coordinates.latitude >= -90
                    /\ salon.coordinates.latitude <= 90
                    /\ salon.coordinates.longitude >= -180
                    /\ salon.coordinates.longitude <= 180
        ratingGiven == Has(salon, "rating")
        ratingOk == /\ ratingGiven
                    /\ Has(salon.rating, "stars")
                    /\ salon.rating.stars >= 0
                    /\ salon.rating.stars <= 50
        arrays == [f \in {g \in arrayFields :
                            Has(salon, g) /\ SelectSeq(salon[g], PlainText) # <<>>}
                     |-> SelectSeq(salon[f], PlainText)]
        strings == [f \in {g \in stringFields : TruthyStr(salon, g) /\ PlainText(salon[g])}
                      |-> Trim(salon[f])]
        cleaned ==
          [name |-> Trim(salon.name)]
            @@ Field(addressOk, "address", Trim(salon.address))
            @@ Field(coordsOk, "coordinates",
                     [latitude |-> salon.coordinates.latitude,
                      longitude |-> salon.coordinates.longitude])
            @@ Field(ratingOk, "rating",
                     [stars |-> salon.rating.stars,
                      numberOfReviewers |->
                        IF Has(salon.rating, "numberOfReviewers")
                          THEN Max2(0, salon.rating.numberOfReviewers) ELSE 0])
            @@ arrays @@ strings
            @@ Field(Has(salon, "businessHours"), "businessHours", salon.businessHours)
            @@ Field(Has(salon, "_meta"), "_meta", salon._meta)
        issues ==
          (IF addressGiven /\ ~addressOk THEN <<"Invalid address format">> ELSE <<>>)
            \o (IF coordsGiven /\ ~coordsOk THEN <<"Invalid coordinates">> ELSE <<>>)
            \o (IF ratingGiven /\ ~ratingOk THEN <<"Invalid rating data">> ELSE <<>>)
    IN [isValid |-> Len(issues) = 0 \/ (Len(issues) > 0 /\ cleaned.name # ""),
        cleaned |-> cleaned, issues |-> issues]

--------------------------------------------------------------------------
(* The enrichment merge on its own: every existing record and every Google
   Places record of a bounded family, merged once and then once more. *)

HoursA == [defaultHours EXCEPT !["monday"] = [open |-> "10:00", close |-> "18:00"]]
PeriodsG == <<[open |-> [day |-> 1, time |-> "0900"], close |-> [day |-> 1, time |-> "1730"]],
              [open |-> [day |-> 6, time |-> "1000"]]>>

PhotoA == [photo_reference |-> "refA"]
PhotoB == [photo_reference |-> "refB"]
PhotoC == [photo_reference |-> "refC"]
PhotoD == [photo_reference |-> "refD"]
PhotoNoRef == [height |-> 300]

SalonRecords ==
  { ("name" :> "Bella Hair") @@ Opt("address", a) @@ Opt("coordinates", c)
      @@ Opt("rating", r) @@ Opt("contactNumber", t) @@ Opt("website", w)
      @@ Opt("businessHours", h) @@ Opt("thumbnails", th) @@ rest :
      a \in {<<>>, <<"12 King St, Newtown">>},
      c \in {<<>>, <<[latitude |-> -33, longitude |-> 151]>>},
      r \in {<<>>, <<[stars |-> 40, numberOfReviewers |-> 10]>>},
      t \in {<<>>, <<"02 9000 0000">>},
      w \in {<<>>, <<"https://bellahair.example">>},
      h \in {<<>>, <<HoursA>>},
      th \in {<<>>, <<(<<>>)>>,
              <<(<<"https://cdn.fresha.com/a.jpg", "https://instagram.com/b.jpg">>)>>},
      rest \in {<<>>, [services |-> <<"Haircut">>, priceRange |-> "$$",
                       serviceCategories |-> <<"Haircut", "Color">>]} }

PlaceRecords ==
  { Opt("name", n) @@ Opt("formatted_address", a) @@ co @@ ra
      @@ Opt("formatted_phone_number", t) @@ Opt("website", w)
      @@ Opt("opening_hours", h) @@ Opt("photos", ph) :
      n \in {<<>>, <<"Bella Hair Studio">>},
      a \in {<<>>, <<"14 King Street, Newtown NSW 2042">>},
      co \in {<<>>, [lat |-> -34, lng |-> 152]},
      ra \in {<<>>, [rating |-> 45, user_ratings_total |-> 120], [rating |-> 45],
              [rating |-> 0, user_ratings_total |-> 0]},
      t \in {<<>>, <<"(02) 9111 1111">>},
      w \in {<<>>, <<"https://bellahairstudio.example">>},
      h \in {<<>>, <<[periods |-> PeriodsG]>>},
      ph \in {<<>>, <<(<<>>)>>, <<(<<PhotoA, PhotoB>>)>>,
               <<(<<PhotoNoRef, PhotoA, PhotoB, PhotoC, PhotoD>>)>>} }

Unmerged == [unmerged |-> TRUE]

\* fnArg, fnResult or fnNext before the function was applied
Unapplied == [unapplied |-> TRUE]

\* No function applied on its own (the specifications of the routes and the cache)
InitFnIdle ==
  /\ fnArg = Unapplied
  /\ fnResult = Unapplied
  /\ fnNext = Unapplied

\* No merge under way (the specifications that are not about the merge alone)
InitMergeIdle ==
  /\ mSalon = Unmerged
  /\ mPlace = Unmerged
  /\ mOnce = Unmerged
  /\ mTwice = Unmerged

InitMerge ==
  /\ InitGovernor
  /\ callsLeft = 0
  /\ InitCache
  /\ mSalon \in SalonRecords
  /\ mPlace \in PlaceRecords
  /\ mOnce = Unmerged
  /\ mTwice = Unmerged
  /\ InitFnIdle

MergeOnce ==
  /\ mOnce = Unmerged
  /\ mOnce' = EnrichMerge(mSalon, mPlace)
  /\ UNCHANGED <<mSalon, mPlace, mTwice, govVars, route, cacheVars, cacheOps,
                 flightVars, fnVars>>

MergeTwice ==
  /\ mOnce # Unmerged
  /\ mTwice = Unmerged
  /\ mTwice' = EnrichMerge(mOnce, mPlace)
  /\ UNCHANGED <<mSalon, mPlace, mOnce, govVars, route, cacheVars, cacheOps,
                 flightVars, fnVars>>

NextMerge == MergeOnce \/ MergeTwice

SpecMerge == InitMerge /\ [][NextMerge]_vars

--------------------------------------------------------------------------
(* lib/perplexityClient.ts: what listSalons does with the text it received *)

\* the check of a lone item: a reference number or a bad response
SuspiciousSingle(item) ==
  \/ AllDigits(item)
  \/ Len(item) < 3
  \/ Includes(ToLowerCase(item), "reference")
  \/ Includes(ToLowerCase(item), "from")

\* listSalons after makeRequest returned: the list it returns, or the Error it throws
ListOutcome(body) ==
  LET data == body.parsed IN
  IF Has(data, "array") /\ ~(Len(data.array) = 1 /\ SuspiciousSingle(data.array[1]))
    THEN [salons |-> data.array]
  ELSE IF Has(data, "object") /\ Has(data.object, "salons")
    THEN [salons |-> data.object.salons]
  ELSE IF Len(body.extracted) > 0
    THEN [salons |-> body.extracted]
  ELSE [error |-> "Failed to extract salon list from response"]

\* validateSalonList of the lists the known bodies lead to, evaluated once
KnownLists ==
  {ListOutcome(b).salons :
     b \in {x \in ListBodies \ {Missing} : Has(ListOutcome(x), "salons")}}
validatedLists == [data \in KnownLists |-> validateSalonList(data)] @@ <<>>
ValidatedList(data) ==
  IF data \in DOMAIN validatedLists THEN validatedLists[data] ELSE validateSalonList(data)

--------------------------------------------------------------------------
(* app/api/research-suburb/route.ts (USE_CLAUDE_CLEANUP unset, API key set) *)

\* `x || dflt` for an optional string
OrElse(opt, dflt) == IF opt = <<>> \/ opt[1] = "" THEN dflt ELSE opt[1]

RECURSIVE SalonObjects(_)
\* cleanedSalons.map(name => ({ name }))
SalonObjects(names) ==
  IF names = <<>> THEN <<>> ELSE <<[name |-> Head(names)]>> \o SalonObjects(Tail(names))

\* the three stores of the cache as a request finds them when it arrives
CacheSnapshot == [details |-> detailsCache, lists |-> listCache, index |-> cacheIndex]

\* POST: the request is read and checked; client.listSalons is called
ListRequest(requests) ==
  \E req \in requests :
    /\ IF req.suburb = ""
         THEN StartRequest("list", "done", [status |-> 400])
         ELSE StartRequest("list", "makeRequest", NoResponse)
    /\ route' = [handler |-> "list", before |-> CacheSnapshot] @@ req
    /\ UNCHANGED <<now, requestTimes, backoffUntil, consecutiveErrors, mergeVars, fnVars, reader,
                   cacheVars, cacheOps>>

\* listSalons returns or throws; the route validates, saves and answers
ListParsed ==
  /\ pc = "parse"
  /\ kind = "list"
  /\ LET outcome == ListOutcome(content)
         validation == ValidatedList(outcome.salons)
     IN IF Has(outcome, "error") \/ ~validation.isValid \/ Len(validation.cleaned) = 0
          THEN /\ response' = [status |-> 500]
               /\ thrown' = TerminalError
               /\ UNCHANGED <<listCache, cacheIndex>>
          ELSE LET salonObjects == SalonObjects(validation.cleaned)
                   saved == saveSalonList(listCache, cacheIndex, route.suburb,
                                          salonObjects, route.model, now)
               IN /\ listCache' = saved.dir
                  /\ cacheIndex' = saved.index
                  /\ thrown' = NoError
                  /\ response' = [status |-> 200, suburb |-> route.suburb,
                                  salons |-> salonObjects, count |-> Len(salonObjects),
                                  validationIssues |-> <<>>]
  /\ pc' = "done"
  /\ UNCHANGED <<now, requestTimes, backoffUntil, consecutiveErrors, kind, attempt,
                 sent, n429, startErrors, waits, content, callsLeft, route, mergeVars, fnVars,
                 flightVars,
                 detailsCache, lastOp, cacheOps>>

--------------------------------------------------------------------------
(* app/api/fetch-salon-details/route.ts (API keys set) *)

\* salon.placeId || salon.place_id
PlaceIdOf(salon) ==
  IF TruthyStr(salon, "placeId") THEN <<salon.placeId>>
  ELSE IF TruthyStr(salon, "place_id") THEN <<salon.place_id>>
  ELSE <<>>

\* enrichedSalonDetails.placeId || placeId
CacheKeyId(record, placeId) ==
  IF TruthyStr(record, "placeId") THEN <<record.placeId>> ELSE placeId

\* !salonDetails.coordinates?.latitude || !salonDetails.coordinates?.longitude
missingCoordinates(salonDetails) ==
  ~(/\ Has(salonDetails, "coordinates")
    /\ TruthyNum(salonDetails.coordinates, "latitude")
    /\ TruthyNum(salonDetails.coordinates, "longitude"))

hasUnprocessedThumbnails(record) ==
  /\ Has(record, "thumbnails")
  /\ \E i \in 1..Len(record.thumbnails) :
       LET thumb == record.thumbnails[i] IN
       thumb # "" /\ (StartsWith(thumb, "http://") \/ StartsWith(thumb, "https://"))

hasLocalThumbnailsWithoutBlobs(record) ==
  /\ Has(record, "localThumbnails")
  /\ Len(record.localThumbnails) > 0
  /\ (~Has(record, "blobUrls") \/ Len(record.blobUrls) = 0)

\* searchPlace found nothing, or failed
NoPlace == [noplace |-> TRUE]

\* a route that asks the upstream even after a cache hit (tests C28)
StageAlwaysFetching(hit) == "makeRequest"

\* if (!salonDetails): the upstream is asked only when the cache gave nothing
StageAfterLookup(hit) == IF hit THEN "enrich" ELSE "makeRequest"

\* POST up to the cache lookup: 400, a cache hit, or client.getSalonDetails is called
DetailsRequest(requests) ==
  \E req \in requests :
    IF ~TruthyStr(req.salon, "name") \/ req.suburb = ""
      THEN /\ StartRequest("details", "done", [status |-> 400])
           /\ route' = [handler |-> "details", before |-> CacheSnapshot] @@ req
           /\ UNCHANGED <<now, requestTimes, backoffUntil, consecutiveErrors, mergeVars,
                          fnVars, reader,
                          cacheVars, cacheOps>>
      ELSE LET placeId == PlaceIdOf(req.salon)
               lookup == IF req.skipCache
                           THEN [dir |-> detailsCache, result |-> Null]
                           ELSE getSalonDetails(detailsCache, placeId, req.salon.name,
                                                OrElse(req.model, "sonar"), now)
               hit == lookup.result # Null
           IN /\ StartRequest("details", StageAfterLookup(hit), NoResponse)
              /\ detailsCache' = lookup.dir
              /\ route' = [handler |-> "details", placeId |-> placeId, fromCache |-> hit,
                           salonDetails |-> lookup.result, place |-> Null,
                           enriched |-> Null, stored |-> Null,
                           before |-> CacheSnapshot] @@ req
              \* getRemainingRequests() before the client is called
              /\ requestTimes' = IF hit THEN requestTimes ELSE InWindow(requestTimes, now)
              /\ UNCHANGED <<now, backoffUntil, consecutiveErrors, mergeVars, fnVars, reader,
                             listCache,
                             cacheIndex, lastOp, cacheOps>>

\* a failure that leaves a record of the request in the cache (tests C29)
DetailsFailsLeavingEntry ==
  /\ response' = [status |-> 500]
  /\ thrown' = TerminalError
  /\ pc' = "done"
  /\ detailsCache' = saveSalonDetails(detailsCache, route.salon, OrElse(route.model, "sonar"),
                                      route.placeId, now).dir
  /\ UNCHANGED route

\* the handler ends with the 500 of its outer catch block
DetailsFails ==
  /\ response' = [status |-> 500]
  /\ thrown' = TerminalError
  /\ pc' = "done"
  /\ UNCHANGED <<route, detailsCache>>

\* getSalonDetails returns what parseJsonResponse made of the text, or throws;
\* the route saves the record
DetailsParsed ==
  /\ pc = "parse"
  /\ kind = "details"
  /\ IF Has(content.parsed, "fail")
       THEN DetailsFails
       ELSE LET salonDetails == content.parsed.object
                saved == saveSalonDetails(detailsCache, salonDetails,
                                          OrElse(route.model, "sonar"), route.placeId, now)
            IN IF saved.threw
                 THEN DetailsFails
                 ELSE /\ detailsCache' = saved.dir
                      /\ route' = [route EXCEPT !.salonDetails = salonDetails]
                      /\ pc' = "enrich"
                      /\ UNCHANGED <<response, thrown>>
  /\ UNCHANGED <<now, requestTimes, backoffUntil, consecutiveErrors, kind, attempt,
                 sent, n429, startErrors, waits, content, callsLeft, mergeVars, fnVars, flightVars,
                 listCache, cacheIndex, lastOp, cacheOps>>

\* enrichWithGooglePlaces that keeps only the name when no place is found (tests C20)
enrichWithGooglePlacesNameOnly(salon, placeData) ==
  IF placeData = NoPlace
    THEN [f \in (DOMAIN salon) \cap {"name"} |-> salon[f]]
    ELSE EnrichMerge(salon, placeData)

\* enrichWithGooglePlaces, given what its searches came back with
enrichWithGooglePlaces(salon, placeData) ==
  IF placeData = NoPlace THEN salon ELSE EnrichMerge(salon, placeData)

\* enrichWithGooglePlaces and the save that follows it, when they are due
DetailsEnrich(places) ==
  /\ pc = "enrich"
  /\ LET salonDetails == route.salonDetails IN
     IF ~route.fromCache \/ route.forceProcessThumbnails \/ missingCoordinates(salonDetails)
       THEN \E placeData \in places \cup {NoPlace} :
              LET enriched == enrichWithGooglePlaces(salonDetails, placeData)
                  saved == saveSalonDetails(detailsCache, enriched,
                                            OrElse(route.model, "sonar"),
                                            CacheKeyId(enriched, route.placeId), now)
              IN IF saved.threw
                   THEN /\ response' = [status |-> 500]
                        /\ thrown' = TerminalError
                        /\ pc' = "done"
                        /\ route' = [route EXCEPT !.place = placeData]
                        /\ UNCHANGED detailsCache
                   ELSE /\ detailsCache' = saved.dir
                        /\ route' = [route EXCEPT !.place = placeData,
                                                  !.enriched = enriched,
                                                  !.stored = IF placeData = NoPlace
                                                               THEN @ ELSE enriched]
                        /\ pc' = "thumbnails"
                        /\ UNCHANGED <<response, thrown>>
       ELSE /\ route' = [route EXCEPT !.enriched = salonDetails]
            /\ pc' = "thumbnails"
            /\ UNCHANGED <<detailsCache, response, thrown>>
  /\ UNCHANGED <<now, requestTimes, backoffUntil, consecutiveErrors, kind, attempt,
                 sent, n429, startErrors, waits, content, callsLeft, mergeVars, fnVars, flightVars,
                 listCache, cacheIndex, lastOp, cacheOps>>

\* the record after /api/process-thumbnails answered `data` with localThumbnails
WithProcessedThumbnails(record, data) ==
  [thumbnails |-> IF Has(data, "blobUrls") THEN data.blobUrls ELSE data.localThumbnails,
   localThumbnails |-> data.localThumbnails]
    @@ Field(Has(data, "blobUrls"), "blobUrls", data.blobUrls)
    @@ [f \in (DOMAIN record) \ {"blobUrls"} |-> record[f]]

\* the 200 answer built from the final record
DetailsResponse(final, fromCache, model, placeId) ==
  LET validation == validateSalonDetails(final) IN
  [status |-> 200,
   body |-> [localThumbnails |-> IF Has(final, "localThumbnails")
                                   THEN final.localThumbnails ELSE <<>>,
             blobUrls |-> IF Has(final, "blobUrls") THEN final.blobUrls ELSE <<>>,
             _meta |-> [fromCache |-> fromCache, model |-> model,
                        validationIssues |-> validation.issues]
                         @@ Opt("placeId", placeId)]
              @@ validation.cleaned]

\* thumbnail processing with the save that follows it, validation, and the answer
DetailsFinish(replies) ==
  /\ pc = "thumbnails"
  /\ LET enriched == route.enriched
         model == OrElse(route.model, "sonar")
         shouldProcessThumbnails ==
           \/ ~route.fromCache
           \/ route.forceProcessThumbnails
           \/ hasUnprocessedThumbnails(enriched)
           \/ hasLocalThumbnailsWithoutBlobs(enriched)
         answer(final) ==
           /\ response' = DetailsResponse(final, route.fromCache, model,
                                          CacheKeyId(enriched, route.placeId))
           /\ thrown' = NoError
           /\ pc' = "done"
     IN IF shouldProcessThumbnails /\ Has(enriched, "thumbnails")
             /\ Len(enriched.thumbnails) > 0
          THEN \E data \in replies :
                 IF Has(data, "localThumbnails")
                   THEN LET final == WithProcessedThumbnails(enriched, data)
                            saved == saveSalonDetails(detailsCache, final, model,
                                                      CacheKeyId(final, route.placeId), now)
                        IN IF saved.threw
                             \* caught by the catch block of the thumbnail step
                             THEN /\ answer(final)
                                  /\ UNCHANGED <<route, detailsCache>>
                             ELSE /\ detailsCache' = saved.dir
                                  /\ route' = [route EXCEPT !.stored = final]
                                  /\ answer(final)
                   ELSE /\ answer(enriched)
                        /\ UNCHANGED <<route, detailsCache>>
          ELSE /\ answer(enriched)
               /\ UNCHANGED <<route, detailsCache>>
  /\ UNCHANGED <<now, requestTimes, backoffUntil, consecutiveErrors, kind, attempt,
                 sent, n429, startErrors, waits, content, callsLeft, mergeVars, fnVars, flightVars,
                 listCache, cacheIndex, lastOp, cacheOps>>

--------------------------------------------------------------------------
(* The ServerCache API called directly (by the other routes and the admin
   pages), and the passing of time. *)

\* the retention window of the cache, in milliseconds
RetentionMs == CACHE_EXPIRY_HOURS * 60 * 60 * 1000
\* the clock stops after MaxWeeks and a half retention windows
ClockLimit == MaxWeeks * RetentionMs + RetentionMs \div 2

\* one ServerCache call or clock tick more
CountOp ==
  /\ cacheOps < MaxCacheOps
  /\ cacheOps' = cacheOps + 1

CallSaveSalonDetails(salons, models, placeIds) ==
  /\ CountOp
  /\ \E salon \in salons, model \in models, placeId \in placeIds :
       LET saved == saveSalonDetails(detailsCache, salon, model, placeId, now) IN
       /\ ~saved.threw
       /\ detailsCache' = saved.dir
       /\ lastOp' = [op |-> "saveSalonDetails", file |-> saved.file, log |-> saved.log,
                     existed |-> saved.file \in DOMAIN detailsCache]
  /\ UNCHANGED <<govVars, route, mergeVars, fnVars, flightVars, listCache, cacheIndex>>

\* the entry a read finds under `file` before it acts
Held(dir, file) == IF file \in DOMAIN dir THEN dir[file] ELSE NoFile

CallGetSalonDetails(names, models, placeIds) ==
  /\ CountOp
  /\ \E salonName \in names, model \in models, placeId \in placeIds :
       LET got == getSalonDetails(detailsCache, placeId, salonName, model, now) IN
       /\ detailsCache' = got.dir
       /\ lastOp' = [op |-> "getSalonDetails", file |-> got.file, result |-> got.result,
                     held |-> Held(detailsCache, got.file), at |-> now,
                     placeId |-> placeId, salonName |-> salonName, model |-> model]
  /\ UNCHANGED <<govVars, route, mergeVars, fnVars, flightVars, listCache, cacheIndex>>

CallSaveSalonList(suburbs, lists, models) ==
  /\ CountOp
  /\ \E suburb \in suburbs, salons \in lists, model \in models :
       LET saved == saveSalonList(listCache, cacheIndex, suburb, salons, model, now) IN
       /\ listCache' = saved.dir
       /\ cacheIndex' = saved.index
       /\ lastOp' = [op |-> "saveSalonList", file |-> ListFile(suburb), suburb |-> suburb]
  /\ UNCHANGED <<govVars, route, mergeVars, fnVars, flightVars, detailsCache>>

CallGetSalonList(suburbs) ==
  /\ CountOp
  /\ \E suburb \in suburbs :
       LET got == getSalonList(listCache, cacheIndex, suburb, now) IN
       /\ listCache' = got.dir
       /\ cacheIndex' = got.index
       /\ lastOp' = [op |-> "getSalonList", file |-> ListFile(suburb),
                     result |-> got.result, held |-> Held(listCache, ListFile(suburb)),
                     at |-> now, suburb |-> suburb]
  /\ UNCHANGED <<govVars, route, mergeVars, fnVars, flightVars, detailsCache>>

CallDeleteSalonList(suburbs) ==
  /\ CountOp
  /\ \E suburb \in suburbs :
       LET deleted == deleteSalonList(listCache, cacheIndex, suburb) IN
       /\ listCache' = deleted.dir
       /\ cacheIndex' = deleted.index
       /\ lastOp' = [op |-> "deleteSalonList", file |-> ListFile(suburb),
                     suburb |-> suburb]
  /\ UNCHANGED <<govVars, route, mergeVars, fnVars, flightVars, detailsCache>>

CallGetAllCached ==
  /\ CountOp
  /\ LET got == getAllCached(cacheIndex, now) IN
     /\ cacheIndex' = got.index
     /\ lastOp' = [op |-> "getAllCached", result |-> got.result]
  /\ UNCHANGED <<govVars, route, mergeVars, fnVars, flightVars, detailsCache, listCache>>

\* time passes while no request is being served, up to ClockLimit
Tick(steps) ==
  /\ CountOp
  /\ pc \in {"idle", "done"}
  /\ \E d \in steps :
       /\ d <= ClockLimit - now
       /\ now' = now + d
  /\ UNCHANGED <<requestTimes, backoffUntil, consecutiveErrors, pc, kind, attempt, sent,
                 n429, startErrors, waits, thrown, content, response, callsLeft, route,
                 mergeVars, fnVars, flightVars, cacheVars>>

--------------------------------------------------------------------------
(* The environments and the specifications *)


\* A fresh process with an empty cache that will serve `calls` requests
InitServing(calls) ==
  /\ InitGovernor
  /\ callsLeft = calls
  /\ InitCache
  /\ InitMergeIdle
  /\ InitFnIdle

(* One request, list or details, against an upstream that may fail in every
   way the client distinguishes. *)
NextGov ==
  \/ ListRequest(ListRequests)
  \/ DetailsRequest(GovDetailRequests)
  \/ waitForSlot
  \/ PostOk(GovBodies)
  \/ PostInvalid(GovBodies)
  \/ Post429(ErrorStatuses)
  \/ PostError(ErrorStatuses)
  \/ RetrySleep
  \/ ClientRethrow
  \/ ListParsed
  \/ DetailsParsed
  \/ DetailsEnrich({})
  \/ DetailsFinish({[error |-> "Failed to process thumbnails"]})

SpecGov == InitServing(1) /\ [][NextGov]_vars

(* Several details requests in a row, with the cache, against an upstream that
   answers at once or refuses (400). *)
NextDetails ==
  \/ DetailsRequest(DetailRequests)
  \/ waitForSlot
  \/ PostOk([details |-> DetailBodies])
  \/ PostError({400})
  \/ ClientRethrow
  \/ DetailsParsed
  \/ DetailsEnrich(Places)
  \/ DetailsFinish(ThumbnailReplies)

SpecDetails == InitServing(MaxCalls) /\ [][NextDetails]_vars

(* The cache on its own: direct calls and clock ticks. *)
CacheSalons == {[name |-> "Bella Hair"], CompleteRecord}
CacheModels == {"sonar", "sonar-pro"}
CachePlaceIds == {<<>>, <<"ChIJ1">>}
CacheSuburbs == {"Newtown", "Glebe"}
CacheLists == {<<[name |-> "Bella Hair"]>>, <<[name |-> "Bella Hair"], [name |-> "Hi Salon"]>>}
TickSteps == {1, RetentionMs}

NextCache ==
  \/ CallSaveSalonDetails(CacheSalons, CacheModels, CachePlaceIds)
  \/ CallGetSalonDetails({"Bella Hair"}, CacheModels, CachePlaceIds)
  \/ CallSaveSalonList(CacheSuburbs, CacheLists, {<<>>, <<"sonar">>})
  \/ CallGetSalonList(CacheSuburbs)
  \/ CallDeleteSalonList(CacheSuburbs)
  \/ CallGetAllCached
  \/ Tick(TickSteps)

SpecCache == InitServing(0) /\ [][NextCache]_vars

--------------------------------------------------------------------------
(* The request governor (SpecGov) *)

(* C1 (as claimed): one governed call sends at most MAX_RETRIES = 5 requests
   to the upstream, whatever the failures it meets. *)
C1_AtMostFiveAttempts == sent <= MAX_RETRIES

(* C2 (as claimed): a RetryableError thrown by a failed attempt is answered to
   the caller of the route: 503 with isRetrying, the attempt number, the attempt
   ceiling and the seconds to wait; any other error is answered 500. *)
C2_ErrorsSurfaced ==
  [][pc = "clientCatch" =>
       /\ thrown.name = "RetryableError" =>
            /\ response'.status = 503
            /\ response'.isRetrying
            /\ response'.attempt = thrown.attempt
            /\ response'.maxAttempts = thrown.maxAttempts
            /\ response'.nextRetryIn = (thrown.nextRetryMs + 500) \div 1000
       /\ thrown.name = "Error" => response'.status = 500]_vars

\* the call started with the counter at 0, met three 429s and then a 200
ThreeTimes429ThenOk ==
  /\ pc = "parse"
  /\ startErrors = 0
  /\ sent = 4
  /\ n429 = 3

(* C3: a call that starts with consecutiveErrors = 0 and is answered 429
   three times and then 200 has waited exactly three times, each wait longer
   than the one before, holds the text of the 200, and leaves
   consecutiveErrors at 0. *)
C3_ThreeIncreasingWaits ==
  ThreeTimes429ThenOk =>
    /\ Len(waits) = 3
    /\ waits[1] < waits[2]
    /\ waits[2] < waits[3]
    /\ content \in GovBodies[kind] \ {Missing}
    /\ consecutiveErrors = 0
C3_Witness ==
  /\ ThreeTimes429ThenOk
  /\ kind = "list"
  /\ waits = <<2000, 4000, 8000>>

--------------------------------------------------------------------------
(* The enrichment merge (SpecMerge).  Every field of SalonRecords that is
   present is non-empty. *)

KeptFields == {"name", "address", "coordinates", "rating", "contactNumber", "website",
               "businessHours"}
(* C4 (as claimed): the merge keeps verbatim every field that is present and
   non-empty on the existing record, thumbnails excepted: name, address,
   coordinates, rating, contact number, website and business hours come from
   the enrichment source only when the existing record lacks them. *)
C4_KeepsExistingFields ==
  mOnce # Unmerged =>
    \A f \in KeptFields : Has(mSalon, f) => (Has(mOnce, f) /\ mOnce[f] = mSalon[f])

OffersPhotos(placeData) == Has(placeData, "photos") /\ Len(placeData.photos) > 0
OfferedUrls(placeData) ==
  {PhotoUrl(placeData.photos[i].photo_reference) :
     i \in {k \in 1..Len(placeData.photos) :
              k <= 3 /\ Has(placeData.photos[k], "photo_reference")}}
(* C5: when the enrichment source offers at least one photo, the merged
   thumbnails are exactly the URLs derived from its (first three) photo
   references; no thumbnail of the existing record survives. *)
C5_PhotosReplaced ==
  (mOnce # Unmerged /\ OffersPhotos(mPlace)) =>
    /\ Range(mOnce.thumbnails) = OfferedUrls(mPlace)
    /\ Len(mOnce.thumbnails) = Cardinality(OfferedUrls(mPlace))
    /\ Has(mSalon, "thumbnails") => Range(mSalon.thumbnails) \cap Range(mOnce.thumbnails) = {}
C5_Witness ==
  /\ mOnce # Unmerged
  /\ OffersPhotos(mPlace)
  /\ Has(mSalon, "thumbnails") /\ Len(mSalon.thumbnails) = 2
  /\ Len(mOnce.thumbnails) = 2

(* C6: merging the same enrichment record a second time changes nothing. *)
C6_MergeIdempotent == mTwice # Unmerged => mTwice = mOnce
C6_Witness ==
  /\ mTwice # Unmerged
  /\ mOnce # mSalon
  /\ OffersPhotos(mPlace) /\ Has(mPlace, "rating") /\ ~Has(mSalon, "rating")

--------------------------------------------------------------------------
(* The details route with its cache (SpecDetails) *)

\* the file a cache read for the salon and model of the request looks at
RequestFile == DetailsFile(route.placeId, route.salon.name, OrElse(route.model, "sonar"))

(* C7 (as claimed): once the details route has merged an enrichment into the
   record, or refined its thumbnails, the entry under the cache key of the
   request holds that merged or refined record. *)
C7_CacheHoldsLatest ==
  (kind = "details" /\ Has(route, "stored") /\ route.stored # Null) =>
    /\ RequestFile \in DOMAIN detailsCache
    /\ detailsCache[RequestFile].salon = route.stored

(* C9 (as claimed): every record of the salon-details cache has a name that
   isValidSalonName accepts. *)
C9_CachedRecordsValid ==
  \A file \in DOMAIN detailsCache :
    /\ Has(detailsCache[file].salon, "name")
    /\ NameIsValid(detailsCache[file].salon.name)

(* C10 (as claimed): the details route answers 200 only with a record whose
   name is present and accepted by isValidSalonName. *)
C10_SuccessHasValidName ==
  (kind = "details" /\ pc = "done" /\ response.status = 200) =>
    /\ Has(response.body, "name")
    /\ NameIsValid(response.body.name)

--------------------------------------------------------------------------
(* The cache on its own (SpecCache) *)

OneWeekMs == 7 * 24 * 60 * 60 * 1000
\* the last call was a read that found an entry under its key
ReadFoundEntry ==
  /\ lastOp.op \in {"getSalonDetails", "getSalonList"}
  /\ lastOp.held # NoFile
\* the directory the last read looked in, and what a hit returns from an entry
ReadDir == IF lastOp.op = "getSalonDetails" THEN detailsCache ELSE listCache
ReadValue(entry) == IF lastOp.op = "getSalonDetails" THEN entry.salon ELSE entry
\* the same read once more, now
ReadAgain ==
  IF lastOp.op = "getSalonDetails"
    THEN getSalonDetails(detailsCache, lastOp.placeId, lastOp.salonName, lastOp.model,
                         now).result
    ELSE getSalonList(listCache, cacheIndex, lastOp.suburb, now).result

(* C8: a read that finds an entry written more than one week before returns
   null and removes the file, so that the same read once more returns null;
   a read that finds an entry no older than one week returns it and leaves
   the file as it was. *)
C8_LazyExpiry ==
  ReadFoundEntry =>
    IF lastOp.at - lastOp.held.timestamp > OneWeekMs
      THEN /\ lastOp.result = Null
           /\ lastOp.file \notin DOMAIN ReadDir
           /\ ReadAgain = Null
      ELSE /\ lastOp.result = ReadValue(lastOp.held)
           /\ lastOp.file \in DOMAIN ReadDir
           /\ ReadDir[lastOp.file] = lastOp.held
C8_Witness ==
  /\ ReadFoundEntry
  /\ lastOp.op = "getSalonDetails"
  /\ lastOp.at - lastOp.held.timestamp = OneWeekMs + 1
  /\ lastOp.result = Null

--------------------------------------------------------------------------
(* What the validator drops and what the caller is told *)

\* the list route answered with fewer names than listSalons returned
ListDropped == Len(ListOutcome(content).salons) > Len(response.salons)

\* the details route answered without a field, or without an array entry, that
\* the record it validated carried (thumbnails aside: the thumbnail step
\* rewrites them)
DetailsDropped ==
  \/ \E f \in stringFields \cup {"address"} :
       /\ TruthyStr(route.enriched, f)
       /\ ~Has(response.body, f)
  \/ \E f \in {"coordinates", "rating"} :
       /\ Has(route.enriched, f)
       /\ ~Has(response.body, f)
  \/ \E f \in arrayFields \ {"thumbnails"} :
       /\ Has(route.enriched, f)
       /\ route.enriched[f] # <<>>
       /\ \/ ~Has(response.body, f)
          \/ Len(response.body[f]) < Len(route.enriched[f])

(* C11 (as claimed): whenever a route answers 200 after the validator rejected
   a name of the list, or dropped a field or an array entry of the record, the
   answer carries at least one validation issue. *)
C11_DropsReported ==
  (pc = "done" /\ response.status = 200) =>
    /\ (kind = "list" /\ ListDropped) => response.validationIssues # <<>>
    /\ (kind = "details" /\ DetailsDropped) => response.body._meta.validationIssues # <<>>

--------------------------------------------------------------------------
(* The request governor with a window log that earlier calls have filled
   (SpecWindow): details requests, one at a time, against an upstream that
   answers, or refuses with a 429 or a 500. *)

\* window logs left by earlier successful requests, all younger than windowMs
FullLogs ==
  {[i \in 1..n |-> IF i <= older THEN 0 ELSE 20000] :
     n \in {maxRequests - 1, maxRequests}, older \in {1, maxRequests}}

InitFullWindow ==
  /\ now = 20000
  /\ requestTimes \in FullLogs
  /\ backoffUntil = 0
  /\ consecutiveErrors = 0
  /\ pc = "idle"
  /\ kind = "none"
  /\ attempt = 0
  /\ sent = 0
  /\ n429 = 0
  /\ startErrors = 0
  /\ waits = <<>>
  /\ thrown = NoError
  /\ content = NoContent
  /\ response = NoResponse
  /\ route = NoRoute
  /\ aborted = FALSE
  /\ reader = NoReader
  /\ callsLeft = MaxCalls
  /\ InitCache
  /\ InitMergeIdle
  /\ InitFnIdle

NextWindow ==
  \/ DetailsRequest(GovDetailRequests)
  \/ waitForSlot
  \/ PostOk(GovBodies)
  \/ Post429({429})
  \/ PostError({500})
  \/ RetrySleep
  \/ DetailsParsed
  \/ DetailsEnrich({})
  \/ DetailsFinish({[error |-> "Failed to process thumbnails"]})

SpecWindow == InitFullWindow /\ [][NextWindow]_vars

(* C12: whenever waitForSlot has returned and the request is about to be sent,
   canMakeRequest holds: no backoff is active and the window log holds fewer
   than maxRequests timestamps younger than windowMs. *)
C12_SlotBeforeSend == pc = "post" => canMakeRequest(requestTimes, backoffUntil, now)

\* a send that waited for the window first, and one that waited out a backoff
C12_Witness ==
  /\ pc = "post"
  /\ Len(waits) = 2
  /\ waits[1] = windowMs - 20000 + 100
  /\ n429 = 1
  /\ Len(requestTimes) = maxRequests - 1

--------------------------------------------------------------------------
(* The RateLimiter on its own (SpecLimiter): its methods called directly, in
   any order, at non-decreasing clock times. *)

\* the clock stops after MaxSeconds seconds
LimiterClockLimit == MaxSeconds * 1000

CallHandle429Error ==
  /\ consecutiveErrors < MaxErrors
  /\ LET h == handle429Error(consecutiveErrors, now) IN
     /\ consecutiveErrors' = h.consecutiveErrors
     /\ backoffUntil' = h.backoffUntil
  /\ UNCHANGED <<now, requestTimes, pc, kind, attempt, sent, n429, startErrors, waits,
                 thrown, content, response, callsLeft, nonGov>>

CallHandleServerError(statuses) ==
  /\ consecutiveErrors < MaxErrors
  /\ \E statusCode \in statuses :
       LET h == handleServerError(statusCode, consecutiveErrors, now) IN
       /\ consecutiveErrors' = h.consecutiveErrors
       /\ backoffUntil' = h.backoffUntil
  /\ UNCHANGED <<now, requestTimes, pc, kind, attempt, sent, n429, startErrors, waits,
                 thrown, content, response, callsLeft, nonGov>>

CallRecordRequest ==
  /\ Len(requestTimes) < MaxSends
  /\ LET r == recordRequest(requestTimes, consecutiveErrors, now) IN
     /\ requestTimes' = r.requestTimes
     /\ consecutiveErrors' = r.consecutiveErrors
  /\ UNCHANGED <<now, backoffUntil, pc, kind, attempt, sent, n429, startErrors, waits,
                 thrown, content, response, callsLeft, nonGov>>

Elapse(steps) ==
  /\ \E d \in steps :
       /\ d <= LimiterClockLimit - now
       /\ now' = now + d
  /\ UNCHANGED <<requestTimes, backoffUntil, consecutiveErrors, pc, kind, attempt, sent,
                 n429, startErrors, waits, thrown, content, response, callsLeft, nonGov>>

NextLimiter ==
  \/ CallHandle429Error
  \/ CallHandleServerError({401, 500, 503})
  \/ CallRecordRequest
  \/ Elapse({1000, 3000})

SpecLimiter == InitServing(0) /\ [][NextLimiter]_vars

(* C13 (as claimed): every classified failure (handle429Error, handleServerError)
   leaves backoffUntil at least where the failure before it had put it. *)
C13_BackoffNeverShrinks ==
  [][consecutiveErrors' = consecutiveErrors + 1 => backoffUntil' >= backoffUntil]_vars

--------------------------------------------------------------------------
(* What a send leaves in the rate limiter (SpecWindow) *)

(* C14: the step in which a send succeeds appends its timestamp to the window
   log, sets consecutiveErrors to 0 and finds backoffUntil not in the future;
   the step in which a send fails adds nothing to the window log. *)
C14_SuccessRecorded ==
  [][pc = "post" =>
       IF pc' = "parse"
         THEN /\ requestTimes' = Append(requestTimes, now')
              /\ consecutiveErrors' = 0
              /\ backoffUntil' <= now'
         ELSE /\ Len(requestTimes') <= Len(requestTimes)
              /\ \A i \in 1..Len(requestTimes') : requestTimes'[i] = requestTimes[i]]_vars

\* a send that succeeded after a 429 and its backoff
C14_Witness ==
  /\ pc = "parse"
  /\ n429 >= 1
  /\ consecutiveErrors = 0
  /\ backoffUntil > 0
  /\ backoffUntil <= now
  /\ requestTimes[Len(requestTimes)] = now

--------------------------------------------------------------------------
(* An upstream that refuses with a 400 (SpecDetails: the 400 is the only
   failure of that environment) *)

\* the governed call has failed and nothing was read from the upstream
RefusedCall == thrown = TerminalError /\ content = NoContent

(* C15: a 400 makes makeRequest throw a terminal error at once: one request
   sent, no wait, and the route answers 500 without another send. *)
C15_RefusedFailsAtOnce ==
  /\ pc = "clientCatch" => (thrown = TerminalError /\ sent = 1 /\ waits = <<>>)
  /\ (pc = "done" /\ RefusedCall) =>
       (response.status = 500 /\ sent = 1 /\ waits = <<>>)

C15_Witness ==
  /\ pc = "done"
  /\ RefusedCall
  /\ sent = 1
  /\ response.status = 500

--------------------------------------------------------------------------
(* The waits between attempts (SpecGov) *)

\* the buckets of the failures other than 429: base and cap in milliseconds
\* (authentication, server-side, transient network/gateway)
WaitBuckets ==
  {[base |-> 2000, cap |-> 600000], [base |-> 3000, cap |-> 600000],
   [base |-> 1000, cap |-> 120000]}

\* w is min(base * 2^n + jitter, cap) for one of the buckets and a jitter in [0, 1 s)
FollowsCurve(w, n) ==
  \E b \in WaitBuckets :
    \E jitter \in 0..(JitterCeil - 1) : w = Min2(b.base * Pow2(n) + jitter, b.cap)

(* C16 (as claimed): the wait announced after the n-th failed attempt of a
   governed call is at most 5 minutes when that failure was a 429, and is
   min(base * 2^n + jitter, cap) of its bucket otherwise. *)
C16_WaitsFollowCurves ==
  [][(pc = "post" /\ thrown'.name = "RetryableError") =>
       IF n429' > n429
         THEN thrown'.nextRetryMs <= 300000
         ELSE FollowsCurve(thrown'.nextRetryMs, sent')]_vars

--------------------------------------------------------------------------
(* The client aborts the request in flight (SpecAbort).  The admin page
   passes an AbortSignal to its fetch; no route handler reads request.signal,
   so the handler serving the request runs on. *)

\* abortControllerRef.current.abort() while the fetch is pending
ClientAbort ==
  /\ pc \notin {"idle", "done"}
  /\ ~aborted
  /\ aborted' = TRUE
  /\ UNCHANGED <<govVars, route, mergeVars, fnVars, cacheVars, cacheOps, reader>>

NextAbort ==
  \/ DetailsRequest(GovDetailRequests)
  \/ ClientAbort
  \/ waitForSlot
  \/ PostOk(GovBodies)
  \/ Post429({429})
  \/ PostError({400, 503})
  \/ RetrySleep
  \/ ClientRethrow
  \/ DetailsParsed
  \/ DetailsEnrich(Places)
  \/ DetailsFinish(ThumbnailReplies)

SpecAbort == InitServing(1) /\ [][NextAbort]_vars

(* C17 (as claimed): once the client has aborted the call, that call writes
   nothing to the cache and, if it has sent a request already, sends no other. *)
C17_AbortStopsCall ==
  [][(aborted /\ aborted') =>
       /\ detailsCache' = detailsCache
       /\ listCache' = listCache
       /\ cacheIndex' = cacheIndex
       /\ sent >= 1 => sent' = sent]_vars

--------------------------------------------------------------------------
(* ServerCache.getSalonDetails in its two steps (SpecRace): `await
   fs.readFile` hands over the file's content, and the continuation checks
   its age and unlinks the path.  Other ServerCache calls may run between
   the two. *)

\* fs.readFile has returned the content of an existing file
ReadBegin(names, models, placeIds) ==
  /\ CountOp
  /\ reader = NoReader
  /\ \E salonName \in names, model \in models, placeId \in placeIds :
       LET file == DetailsFile(placeId, salonName, model) IN
       /\ file \in DOMAIN detailsCache
       /\ reader' = [file |-> file, cached |-> detailsCache[file], placeId |-> placeId,
                     salonName |-> salonName, model |-> model]
  /\ UNCHANGED <<govVars, route, mergeVars, fnVars, cacheVars, aborted>>

\* JSON.parse, isExpired(cached.timestamp), fs.unlink(filepath) or return cached.salon
ReadEnd ==
  /\ reader # NoReader
  /\ LET expired == isExpired(reader.cached.timestamp, now) IN
     /\ detailsCache' = IF expired THEN Unlink(detailsCache, reader.file) ELSE detailsCache
     /\ lastOp' = [op |-> "getSalonDetails", file |-> reader.file,
                   result |-> IF expired THEN Null ELSE reader.cached.salon,
                   held |-> reader.cached, at |-> now, placeId |-> reader.placeId,
                   salonName |-> reader.salonName, model |-> reader.model]
  /\ reader' = NoReader
  /\ UNCHANGED <<govVars, route, mergeVars, fnVars, listCache, cacheIndex, cacheOps, aborted>>

NextRace ==
  \/ CallSaveSalonDetails(CacheSalons, CacheModels, CachePlaceIds)
  \/ ReadBegin({"Bella Hair"}, CacheModels, CachePlaceIds)
  \/ ReadEnd
  \/ (reader = NoReader /\ Tick({1, RetentionMs + 1}))

SpecRace == InitServing(0) /\ [][NextRace]_vars

(* C18 (as claimed): the step in which a getSalonDetails returns leaves every
   entry that is within the retention window in the cache, as it was. *)
C18_ReadKeepsFreshEntries ==
  [][(reader # NoReader /\ reader' = NoReader) =>
       \A f \in DOMAIN detailsCache :
         ~isExpired(detailsCache[f].timestamp, now) =>
           (f \in DOMAIN detailsCache' /\ detailsCache'[f] = detailsCache[f])]_vars


\* ---------------------------------------------------------------------------
\* C19  the log line of saveSalonDetails
\* ---------------------------------------------------------------------------

SaveLogs == {"Updated", "Created"}

(* C19: every write of saveSalonDetails logs exactly one of "Updated cached
   details" and "Created cache"; it logs the update exactly when a file was
   held under the cache key just before the write, and the creation exactly
   when none was. *)
C19_UpdateOrCreateLogged ==
  lastOp.op = "saveSalonDetails" =>
    /\ lastOp.log \in SaveLogs
    /\ lastOp.file \in DOMAIN detailsCache
    /\ lastOp.log = "Updated" <=> lastOp.existed
    /\ lastOp.log = "Created" <=> ~lastOp.existed

\* a key written a second time, after the write that created it
C19_Witness ==
  /\ lastOp.op = "saveSalonDetails"
  /\ lastOp.existed
  /\ lastOp.log = "Updated"
  /\ cacheOps >= 2
  /\ detailsCache[lastOp.file].timestamp = now

\* ---------------------------------------------------------------------------
\* C20  Google Places finds nothing
\* ---------------------------------------------------------------------------

\* the fields of the answer that come from the record
RecordFields(body) == (DOMAIN body) \ {"thumbnails", "localThumbnails", "blobUrls", "_meta"}

\* the handler asked Google Places and got no place back
NoMatch == kind = "details" /\ Has(route, "place") /\ route.place = NoPlace

(* C20: when searchPlace finds no place or fails, enrichWithGooglePlaces hands
   back the record it was given, equal in every field, the handler goes on to
   the thumbnail step, and it answers 200 with no field the record lacks. *)
C20_NoMatchKeepsRecord ==
  NoMatch =>
    /\ pc \in {"thumbnails", "done"}
    /\ route.enriched = route.salonDetails
    /\ pc = "done" =>
         /\ response.status = 200
         /\ RecordFields(response.body) \subseteq DOMAIN route.salonDetails

\* an answer after a search that found nothing, for a record with several fields
C20_Witness ==
  /\ NoMatch
  /\ pc = "done"
  /\ response.status = 200
  /\ ~route.fromCache
  /\ route.salonDetails = CompleteRecord
  /\ response.body.name = CompleteRecord.name

--------------------------------------------------------------------------
(* lib/salonDataValidator.ts on its own: isValidSalonName and validateSalonList
   applied to names and lists of names *)

RECURSIVE Fill(_, _)
\* str lengthened with the letter x to n characters
Fill(str, n) == IF Len(str) >= n THEN str ELSE Fill(str \o "x", n)

\* Names of few characters, bare and between spaces, and names around 100 characters
ShortCores == {"", "a", "Z", "7", "ab", "Ab", "AB", "a1", "42", "Jo", "abc", "Bob", "Ace",
               "A1 Cuts", "Bella"}
NameInputs ==
  {l \o c \o r : l \in {"", " "}, c \in ShortCores, r \in {"", " ", "  "}}
    \cup {Fill("Bella Hair ", n) : n \in {99, 100, 101, 102, 150}}

\* Candidate name lists: spellings of one name, another name, a rejected item
ListNames == {"Bella Hair", "bella hair", " Bella Hair ", "BELLA HAIR", "Cutting Edge Salon",
              "1"}
ListInputs ==
  {<<>>} \cup {<<a>> : a \in ListNames} \cup {<<a, b>> : a \in ListNames, b \in ListNames}
    \cup {<<"Bella Hair", "Cutting Edge Salon", b>> : b \in ListNames}

InitValidator ==
  /\ InitGovernor
  /\ callsLeft = 0
  /\ InitCache
  /\ InitMergeIdle
  /\ fnArg \in {[name |-> n] : n \in NameInputs} \cup {[list |-> l] : l \in ListInputs}
  /\ fnResult = Unapplied
  /\ fnNext = Unapplied

\* isValidSalonName(name)
CallIsValidSalonName ==
  /\ Has(fnArg, "name")
  /\ fnResult = Unapplied
  /\ fnResult' = [valid |-> isValidSalonName(fnArg.name)]
  /\ UNCHANGED <<fnArg, fnNext, govVars, route, mergeVars, cacheVars, cacheOps, flightVars>>

\* validateSalonList(data)
CallValidateSalonList ==
  /\ Has(fnArg, "list")
  /\ fnResult = Unapplied
  /\ fnResult' = validateSalonList(fnArg.list)
  /\ UNCHANGED <<fnArg, fnNext, govVars, route, mergeVars, cacheVars, cacheOps, flightVars>>

\* validateSalonList(validation.cleaned): the accepted list is validated again
CallValidateAgain ==
  /\ Has(fnResult, "cleaned")
  /\ fnNext = Unapplied
  /\ fnNext' = validateSalonList(fnResult.cleaned)
  /\ UNCHANGED <<fnArg, fnResult, govVars, route, mergeVars, cacheVars, cacheOps,
                 flightVars>>

NextValidator == CallIsValidSalonName \/ CallValidateSalonList \/ CallValidateAgain

SpecValidator == InitValidator /\ [][NextValidator]_vars

\* ---------------------------------------------------------------------------
\* C21  validateSalonList removes duplicates
\* ---------------------------------------------------------------------------

\* two names that differ at most by letter case and surrounding whitespace
SameName(a, b) == ToLowerCase(Trim(a)) = ToLowerCase(Trim(b))

(* C21: the list validateSalonList returns holds no two names that differ only
   by letter case or surrounding whitespace, and validating that list again
   returns the same list. *)
C21_DedupIgnoresCase ==
  /\ Has(fnResult, "cleaned") =>
       \A i, j \in 1..Len(fnResult.cleaned) :
         i # j => ~SameName(fnResult.cleaned[i], fnResult.cleaned[j])
  /\ Has(fnNext, "cleaned") => fnNext.cleaned = fnResult.cleaned

\* ---------------------------------------------------------------------------
\* C22  the length limits of isValidSalonName
\* ---------------------------------------------------------------------------

(* C22: isValidSalonName returns false for every name whose trimmed length is
   under 3 or over 100. *)
C22_LengthLimits ==
  (Has(fnArg, "name") /\ Has(fnResult, "valid")) =>
    ((Len(Trim(fnArg.name)) < 3 \/ Len(Trim(fnArg.name)) > 100) => ~fnResult.valid)

--------------------------------------------------------------------------
(* JSON.parse, for the JSON that occurs in the response texts below: strings
   without escapes, non-negative integers, arrays whose items are all strings
   or all integers, and objects of such values and of objects.  A parse
   yields [ok |-> TRUE, value |-> v, next |-> position after the value] or
   JsonFail; the values are
     [string |-> s]   [number |-> n]   [array |-> <<s1, ...>>]
     [numbers |-> <<n1, ...>>]         [object |-> record]                  *)

JsonFail == [ok |-> FALSE]
JsonOk(v, n) == [ok |-> TRUE, value |-> v, next |-> n]

\* the character at position i, "" beyond the end
At(str, i) == IF i >= 1 /\ i <= Len(str) THEN Char(str, i) ELSE ""

RECURSIVE SkipWs(_, _)
SkipWs(str, i) == IF At(str, i) \in Whitespace THEN SkipWs(str, i + 1) ELSE i

RECURSIVE IndexFrom(_, _, _)
\* str.indexOf(sub, i - 1) + 1: the first position from i on where sub starts, 0 if none
IndexFrom(str, sub, i) ==
  IF i + Len(sub) - 1 > Len(str) THEN 0
  ELSE IF SubSeq(str, i, i + Len(sub) - 1) = sub THEN i
  ELSE IndexFrom(str, sub, i + 1)
IndexOf(str, sub) == IndexFrom(str, sub, 1)

RECURSIVE LastIndexFrom(_, _, _)
LastIndexFrom(str, sub, i) ==
  IF i < 1 THEN 0
  ELSE IF SubSeq(str, i, i + Len(sub) - 1) = sub THEN i
  ELSE LastIndexFrom(str, sub, i - 1)
\* str.lastIndexOf(sub) + 1
LastIndexOf(str, sub) == LastIndexFrom(str, sub, Len(str) - Len(sub) + 1)

RECURSIVE DigitsEnd(_, _)
\* the position after the digits that start at i
DigitsEnd(str, i) == IF IsDigit(At(str, i)) THEN DigitsEnd(str, i + 1) ELSE i

RECURSIVE ToNumber(_)
ToNumber(digits) ==
  IF digits = "" THEN 0
  ELSE 10 * ToNumber(SubSeq(digits, 1, Len(digits) - 1))
         + (CHOOSE d \in 0..9 : ToString(d) = Char(digits, Len(digits)))

\* a string literal that starts at the quote at position i
JsonString(str, i) ==
  LET close == IndexFrom(str, "\"", i + 1) IN
  IF close = 0 \/ Includes(SubSeq(str, i + 1, close - 1), "\n") THEN JsonFail
  ELSE JsonOk([string |-> SubSeq(str, i + 1, close - 1)], close + 1)

\* an integer without sign that starts at the digit at position i
JsonNumber(str, i) ==
  LET end == DigitsEnd(str, i) IN
  IF At(str, i) = "0" /\ end > i + 1 THEN JsonFail
  ELSE JsonOk([number |-> ToNumber(SubSeq(str, i, end - 1))], end)

RECURSIVE JsonValue(_, _), JsonItems(_, _, _, _), JsonFields(_, _, _)
\* the items of an array from the item at position i on; acc holds those read,
\* all of kind "string" or "number" ("" before the first)
JsonItems(str, i, acc, itemKind) ==
  LET item == IF At(str, i) = "\"" THEN JsonString(str, i)
              ELSE IF IsDigit(At(str, i)) THEN JsonNumber(str, i)
              ELSE JsonFail
  IN IF ~item.ok THEN JsonFail
     ELSE LET isString == Has(item.value, "string")
              thisKind == IF isString THEN "string" ELSE "number"
              items == Append(acc, IF isString THEN item.value.string
                                   ELSE item.value.number)
              after == SkipWs(str, item.next)
          IN IF itemKind \notin {"", thisKind} THEN JsonFail
             ELSE IF At(str, after) = ","
               THEN JsonItems(str, SkipWs(str, after + 1), items, thisKind)
             ELSE IF At(str, after) = "]"
               THEN JsonOk(IF isString THEN [array |-> items] ELSE [numbers |-> items],
                           after + 1)
             ELSE JsonFail

\* the value as it is kept inside an object
Plain(v) ==
  IF Has(v, "string") THEN v.string
  ELSE IF Has(v, "number") THEN v.number
  ELSE IF Has(v, "array") THEN v.array
  ELSE IF Has(v, "numbers") THEN v.numbers
  ELSE v.object

\* the members of an object from the key at position i on
JsonFields(str, i, acc) ==
  IF At(str, i) # "\"" THEN JsonFail
  ELSE LET key == JsonString(str, i) IN
       IF ~key.ok THEN JsonFail
       ELSE LET colon == SkipWs(str, key.next) IN
            IF At(str, colon) # ":" THEN JsonFail
            ELSE LET member == JsonValue(str, SkipWs(str, colon + 1)) IN
                 IF ~member.ok THEN JsonFail
                 ELSE LET \* a later member of the same key replaces the earlier one
                          fields == (key.value.string :> Plain(member.value)) @@ acc
                          after == SkipWs(str, member.next)
                      IN IF At(str, after) = ","
                           THEN JsonFields(str, SkipWs(str, after + 1), fields)
                         ELSE IF At(str, after) = "}"
                           THEN JsonOk([object |-> fields], after + 1)
                         ELSE JsonFail

\* the value that starts at position i
JsonValue(str, i) ==
  LET c == At(str, i) IN
  IF c = "\"" THEN JsonString(str, i)
  ELSE IF IsDigit(c) THEN JsonNumber(str, i)
  ELSE IF c = "["
    THEN LET first == SkipWs(str, i + 1) IN
         IF At(str, first) = "]" THEN JsonOk([array |-> <<>>], first + 1)
         ELSE JsonItems(str, first, <<>>, "")
  ELSE IF c = "{"
    THEN LET first == SkipWs(str, i + 1) IN
         IF At(str, first) = "}" THEN JsonOk([object |-> <<>>], first + 1)
         ELSE JsonFields(str, first, <<>>)
  ELSE JsonFail

\* JSON.parse(str): the value, or JsonFail for the SyntaxError
JsonParse(str) ==
  LET v == JsonValue(str, SkipWs(str, 1)) IN
  IF v.ok /\ SkipWs(str, v.next) = Len(str) + 1 THEN v ELSE JsonFail

--------------------------------------------------------------------------
(* lib/perplexityClient.ts: parseJsonResponse(content, isArrayExpected), one
   operator for each of its six strategies.  A strategy yields the value it
   returns, or Abstain when the code goes on to the next strategy. *)

Abstain == [abstain |-> TRUE]

\* JSON.parse inside try/catch: the value, or Abstain
TryParse(str) == LET p == JsonParse(str) IN IF p.ok THEN p.value ELSE Abstain

\* content.substring(from - 1, to)
Substring(str, from, to) == SubSeq(str, from, to)

\* Strategy 1: direct parse
DirectParse(text) ==
  LET trimmedContent == Trim(text) IN
  IF StartsWith(trimmedContent, "[") \/ StartsWith(trimmedContent, "{")
    THEN TryParse(trimmedContent)
    ELSE Abstain

\* Strategy 2: the text after the last closing thinking tag
AfterThinking(text) ==
  LET thinkEndIndex == LastIndexOf(text, "</think>")
      afterThinking == Trim(Substring(text, thinkEndIndex + 8, Len(text)))
  IN IF (Includes(text, "<think>") \/ Includes(text, "</think>"))
        /\ thinkEndIndex # 0 /\ afterThinking # ""
       THEN TryParse(afterThinking)
       ELSE Abstain

\* match[1] of the code block pattern, "" when the pattern does not match
CodeBlock(text) ==
  LET open == IndexOf(text, Fence)
      afterOpen == open + 3
      afterJson == IF Substring(text, afterOpen, Min2(Len(text), afterOpen + 3)) = "json"
                     THEN afterOpen + 4 ELSE afterOpen
      start == SkipWs(text, afterJson)
      close == IndexFrom(text, Fence, start)
  IN IF open = 0 \/ close = 0 THEN "" ELSE Substring(text, start, close - 1)

\* Strategy 3: the first markdown code block
MarkdownBlock(text) ==
  LET block == CodeBlock(text) IN
  IF block # "" THEN TryParse(Trim(block)) ELSE Abstain

RECURSIVE NextBrace(_, _)
\* the position of the first brace from i on, 0 if none
NextBrace(str, i) ==
  IF i > Len(str) THEN 0
  ELSE IF Char(str, i) \in {"{", "}"} THEN i
  ELSE NextBrace(str, i + 1)

RECURSIVE NameObjects(_, _)
\* the matches of /\{[^{}]*"name"[^{}]*\}/g from position i on, in order
NameObjects(text, i) ==
  LET open == IndexFrom(text, "{", i)
      close == NextBrace(text, open + 1)
  IN IF open = 0 \/ close = 0 THEN <<>>
     ELSE IF Char(text, close) = "}"
             /\ Includes(Substring(text, open + 1, close - 1), "\"name\"")
       THEN <<Substring(text, open, close)>> \o NameObjects(text, close + 1)
     ELSE NameObjects(text, open + 1)

\* `parsed.name` as a condition; a name in the texts below is a string
TruthyName(parsed) == Has(parsed, "object") /\ TruthyStr(parsed.object, "name")

RECURSIVE BestMatch(_, _, _)
\* the loop over the matches: the longest that parses and has a name, the
\* earliest of them among equals
BestMatch(matches, bestMatch, bestMatchLength) ==
  IF matches = <<>> THEN bestMatch
  ELSE LET completeJson == Head(matches)
           parsed == TryParse(completeJson)
       IN IF parsed # Abstain /\ TruthyName(parsed) /\ Len(completeJson) > bestMatchLength
            THEN BestMatch(Tail(matches), parsed, Len(completeJson))
            ELSE BestMatch(Tail(matches), bestMatch, bestMatchLength)

\* Strategy 4 when an object is expected
ObjectScan(text) ==
  LET bestMatch == BestMatch(NameObjects(text, 1), Abstain, 0)
      jsonStart == IndexOf(text, "{")
      jsonEnd == LastIndexOf(text, "}")
  IN IF bestMatch # Abstain THEN bestMatch
     ELSE IF jsonStart # 0 /\ jsonEnd # 0 /\ jsonEnd > jsonStart
       THEN TryParse(Substring(text, jsonStart, jsonEnd))
     ELSE Abstain

RECURSIVE QuotedArrayStart(_, _)
\* where the first match of /\[\s*"[^"]+"/ starts, from position i on; 0 if none
QuotedArrayStart(text, i) ==
  LET open == IndexFrom(text, "[", i)
      quote == SkipWs(text, open + 1)
      close == IndexFrom(text, "\"", quote + 1)
  IN IF open = 0 THEN 0
     ELSE IF At(text, quote) = "\"" /\ close > quote + 1 THEN open
     ELSE QuotedArrayStart(text, open + 1)

\* parsed.every(item => typeof item === 'string' && item.length > 1 && !/^\d+$/.test(item))
EveryItemIsName(parsed) ==
  /\ Has(parsed, "array")
  /\ Len(parsed.array) > 0
  /\ \A n \in 1..Len(parsed.array) : Len(parsed.array[n]) > 1 /\ ~AllDigits(parsed.array[n])

\* an array of one item that is all digits: a reference number
IsReferenceNumber(parsed) ==
  \/ Has(parsed, "numbers") /\ Len(parsed.numbers) = 1
  \/ Has(parsed, "array") /\ Len(parsed.array) = 1 /\ AllDigits(parsed.array[1])

\* Strategy 4 when an array is expected
ArrayScan(text) ==
  LET startIndex == QuotedArrayStart(text, 1)
      endIndex == IndexFrom(text, "]", startIndex)
      quoted == IF startIndex # 0 /\ endIndex # 0
                  THEN TryParse(Substring(text, startIndex, endIndex))
                  ELSE Abstain
      lastArrayStart == LastIndexOf(text, "[")
      lastArrayEnd == LastIndexOf(text, "]")
      last == IF lastArrayStart # 0 /\ lastArrayEnd # 0 /\ lastArrayEnd > lastArrayStart
                THEN TryParse(Substring(text, lastArrayStart, lastArrayEnd))
                ELSE Abstain
  IN IF quoted # Abstain /\ EveryItemIsName(quoted) THEN quoted
     ELSE IF last # Abstain /\ ~IsReferenceNumber(last) THEN last
     ELSE Abstain

\* Strategy 4: a JSON structure anywhere in the text
StructureScan(text, isArrayExpected) ==
  IF isArrayExpected THEN ArrayScan(text) ELSE ObjectScan(text)

\* Strategy 6: the structure of the other shape
AlternateShape(text, isArrayExpected) ==
  LET altStart == IndexOf(text, IF isArrayExpected THEN "{" ELSE "[")
      altEnd == LastIndexOf(text, IF isArrayExpected THEN "}" ELSE "]")
  IN IF altStart # 0 /\ altEnd # 0 /\ altEnd > altStart
       THEN TryParse(Substring(text, altStart, altEnd))
       ELSE Abstain

RECURSIVE SplitLines(_)
\* str.split('\n')
SplitLines(str) ==
  LET n == IndexOf(str, "\n") IN
  IF n = 0 THEN <<str>>
  ELSE <<SubSeq(str, 1, n - 1)>> \o SplitLines(SubSeq(str, n + 1, Len(str)))

\* (?:\s+(?:in|at|on)\s+.+)?$
afterListItem ==
  RCat(<<ROpt(RCat(<<RPlus(RSpace), RAlt(<<RLit("in"), RLit("at"), RLit("on")>>),
                     RPlus(RSpace), RPlus(RAny)>>)), REol>>)

\* (?:\s*[-–]\s*|\s+in\s+|\s+at\s+|,|$); the texts below hold no en dash
afterCapitalized ==
  RAlt(<<RCat(<<RStar(RSpace), RLit("-"), RStar(RSpace)>>),
         RCat(<<RPlus(RSpace), RLit("in"), RPlus(RSpace)>>),
         RCat(<<RPlus(RSpace), RLit("at"), RPlus(RSpace)>>),
         RLit(","), REol>>)

\* the group of a lazy (.+?) that starts at position from: the shortest run of
\* allowed characters after which `after` matches; "" when there is none
LazyGroup(line, from, minLen, disallowed, after) ==
  LET ends == {e \in (from + minLen - 1)..Len(line) :
                 /\ \A c \in from..e : Char(line, c) \notin disallowed
                 /\ Ends(after, line, e + 1, FALSE) # {}}
  IN IF from < 1 \/ ends = {} THEN ""
     ELSE SubSeq(line, from, CHOOSE e \in ends : \A f \in ends : e <= f)

\* where the text of a list item starts after the marker and its spaces, 0 if
\* the line does not start with the marker followed by a space
AfterMarker(line, markerEnd) ==
  LET start == SkipWs(line, markerEnd) IN
  IF markerEnd > 1 /\ start > markerEnd THEN start ELSE 0

\* match[1] of /^\d+\.\s+(.+?)(?:\s+(?:in|at|on)\s+.+)?$/
NumberedItem(line) ==
  LET dot == DigitsEnd(line, 1) IN
  LazyGroup(line, AfterMarker(line, IF dot > 1 /\ At(line, dot) = "." THEN dot + 1 ELSE 0),
            1, {"\n", "\r"}, afterListItem)

\* match[1] of /^[-*•]\s+(.+?)(?:\s+(?:in|at|on)\s+.+)?$/; the texts below hold no bullet
BulletItem(line) ==
  LazyGroup(line, AfterMarker(line, IF At(line, 1) \in {"-", "*"} THEN 2 ELSE 0),
            1, {"\n", "\r"}, afterListItem)

RECURSIVE QuotedName(_, _)
\* match[1] of /"([^"]+)"/ from position i on
QuotedName(line, i) ==
  LET open == IndexFrom(line, "\"", i)
      close == IndexFrom(line, "\"", open + 1)
  IN IF open = 0 \/ close = 0 THEN ""
     ELSE IF close > open + 1 THEN SubSeq(line, open + 1, close - 1)
     ELSE QuotedName(line, close)

\* match[1] of /^([A-Z][^,\[\]\{\}]+?)(?:\s*[-–]\s*|\s+in\s+|\s+at\s+|,|$)/
CapitalizedName(line) ==
  IF IsUpper(At(line, 1)) /\ Len(line) >= 2
       /\ LazyGroup(line, 2, 1, {",", "[", "]", "{", "}"}, afterCapitalized) # ""
    THEN Char(line, 1) \o LazyGroup(line, 2, 1, {",", "[", "]", "{", "}"}, afterCapitalized)
    ELSE ""

\* the check of a name found on a line
ReasonableName(salonName, salons) ==
  LET lower == ToLowerCase(salonName) IN
  /\ Len(salonName) > 2
  /\ Len(salonName) < 100
  /\ ~AllDigits(salonName)
  /\ \A c \in {"[", "]", "{", "}"} : ~Includes(salonName, c)
  /\ ~Includes(lower, "from")
  /\ ~StartsWith(lower, "the user")
  /\ ~StartsWith(lower, "okay")
  /\ salonName \notin Range(salons)

RECURSIVE FirstReasonable(_, _)
\* the loop over the patterns: the first group that passes the check, "" if none
FirstReasonable(groups, salons) ==
  IF groups = <<>> THEN ""
  ELSE IF Head(groups) # "" /\ ReasonableName(Trim(Head(groups)), salons)
    THEN Trim(Head(groups))
  ELSE FirstReasonable(Tail(groups), salons)

RECURSIVE LineNames(_, _)
\* the loop over the lines
LineNames(lines, salons) ==
  IF lines = <<>> THEN salons
  ELSE LET trimmedLine == Trim(Head(lines))
           found == FirstReasonable(<<NumberedItem(trimmedLine), BulletItem(trimmedLine),
                                      QuotedName(trimmedLine, 1),
                                      CapitalizedName(trimmedLine)>>, salons)
       IN IF trimmedLine = "" \/ StartsWith(trimmedLine, "<")
             \/ StartsWith(trimmedLine, "From [") \/ found = ""
            THEN LineNames(Tail(lines), salons)
            ELSE LineNames(Tail(lines), Append(salons, found))

\* Strategy 5: names line by line, when an array is expected
LineByLine(text, isArrayExpected) ==
  LET salons == IF isArrayExpected THEN LineNames(SplitLines(text), <<>>) ELSE <<>> IN
  IF Len(salons) > 0 THEN [array |-> salons] ELSE Abstain

\* the six strategies in the order of the code
Strategies(text, isArrayExpected) ==
  <<DirectParse(text), AfterThinking(text), MarkdownBlock(text),
    StructureScan(text, isArrayExpected), LineByLine(text, isArrayExpected),
    AlternateShape(text, isArrayExpected)>>

\* parseJsonResponse without the strategy that reads the text after the
\* reasoning (tests C25)
parseJsonResponseNoStripping(text, isArrayExpected) ==
  IF DirectParse(text) # Abstain
    THEN [strategy |-> 1, parsed |-> DirectParse(text)]
  ELSE IF MarkdownBlock(text) # Abstain
    THEN [strategy |-> 3, parsed |-> MarkdownBlock(text)]
  ELSE IF StructureScan(text, isArrayExpected) # Abstain
    THEN [strategy |-> 4, parsed |-> StructureScan(text, isArrayExpected)]
  ELSE IF LineByLine(text, isArrayExpected) # Abstain
    THEN [strategy |-> 5, parsed |-> LineByLine(text, isArrayExpected)]
  ELSE IF AlternateShape(text, isArrayExpected) # Abstain
    THEN [strategy |-> 6, parsed |-> AlternateShape(text, isArrayExpected)]
  ELSE [strategy |-> 0, parsed |-> ParseFailure]

\* parseJsonResponse: the value returned with the number of the strategy that
\* returned it, or the Error thrown after the last strategy (strategy 0)
parseJsonResponse(text, isArrayExpected) ==
  IF DirectParse(text) # Abstain
    THEN [strategy |-> 1, parsed |-> DirectParse(text)]
  ELSE IF AfterThinking(text) # Abstain
    THEN [strategy |-> 2, parsed |-> AfterThinking(text)]
  ELSE IF MarkdownBlock(text) # Abstain
    THEN [strategy |-> 3, parsed |-> MarkdownBlock(text)]
  ELSE IF StructureScan(text, isArrayExpected) # Abstain
    THEN [strategy |-> 4, parsed |-> StructureScan(text, isArrayExpected)]
  ELSE IF LineByLine(text, isArrayExpected) # Abstain
    THEN [strategy |-> 5, parsed |-> LineByLine(text, isArrayExpected)]
  ELSE IF AlternateShape(text, isArrayExpected) # Abstain
    THEN [strategy |-> 6, parsed |-> AlternateShape(text, isArrayExpected)]
  ELSE [strategy |-> 0, parsed |-> ParseFailure]

--------------------------------------------------------------------------
(* lib/perplexityClient.ts: extractSalonArray(content), the four strategies
   that add names to allSalons in turn *)

\* addSalon(name)
addSalon(allSalons, name) ==
  IF name # "" /\ \A n \in 1..Len(allSalons) :
                    ToLowerCase(Trim(allSalons[n])) # ToLowerCase(Trim(name))
    THEN Append(allSalons, name)
    ELSE allSalons

RECURSIVE AddSalons(_, _)
AddSalons(allSalons, names) ==
  IF names = <<>> THEN allSalons
  ELSE AddSalons(addSalon(allSalons, Head(names)), Tail(names))

\* /^\[?\d+\]?$/
bracketedNumber ==
  RCat(<<RBol, ROpt(RLit("[")), RPlus(RDigit), ROpt(RLit("]")), REol>>)

\* the filter of the items of a parsed array
IsArrayName(item) ==
  LET trimmed == Trim(item) IN
  /\ Len(trimmed) > 3
  /\ Len(trimmed) < 100
  /\ ~Test(bracketedNumber, trimmed, FALSE)
  /\ ~Includes(ToLowerCase(trimmed), "business")
  /\ ~Includes(ToLowerCase(trimmed), "salon name")

RECURSIVE BracketMatches(_, _)
\* the matches of /\[\s*[\s\S]*?\]/g from position i on
BracketMatches(text, i) ==
  LET open == IndexFrom(text, "[", i)
      close == IndexFrom(text, "]", open + 1)
  IN IF open = 0 \/ close = 0 THEN <<>>
     ELSE <<Substring(text, open, close)>> \o BracketMatches(text, close + 1)

RECURSIVE FromArrays(_, _)
\* Strategy 1: the names in the JSON arrays of the text
FromArrays(matches, allSalons) ==
  IF matches = <<>> THEN allSalons
  ELSE LET parsed == TryParse(Head(matches))
           validItems == IF parsed # Abstain /\ Has(parsed, "array")
                           THEN SelectSeq(parsed.array, IsArrayName) ELSE <<>>
       IN FromArrays(Tail(matches), AddSalons(allSalons, validItems))

\* the lines that are headers or meta text
skippedPhrases ==
  {"here are", "list of", "beauty salons:", "hair salons:", "nail salons:", "day spas",
   "skin clinics", "lash studios", "brow studios", "lash and brow", "massage centers",
   "wellness centers", "aesthetics centers", "based on", "let me", "i found", "i'll",
   "searching for", "looking for", "results:", "total:", "note:", "summary:",
   "this gives me", "after removing", "is listed", "are listed", "multiple times",
   "same business", "title (", "summary paragraph", "main body", "conclusion (",
   "make sure to", "newtown's hair salon scene"}

\* \(\d+\)\s*:?\s*$
countAtEnd ==
  RCat(<<RLit("("), RPlus(RDigit), RLit(")"), RStar(RSpace), ROpt(RLit(":")),
         RStar(RSpace), REol>>)
\* /^\s*\(\d+\)\s*:?\s*$/
countOnly == RCat(<<RBol, RStar(RSpace), countAtEnd>>)
\* /^[A-Za-z\s&]+\s+\(\d+\)\s*:?\s*$/
categoryCount ==
  RCat(<<RBol, RPlus(RSet(FALSE, {"&"}, TRUE, TRUE, FALSE, TRUE)), RPlus(RSpace),
         countAtEnd>>)

\* /^\d+\.\s*/, /^[-•*●◆▪]\s*/ (the texts below hold no bullet other than - and *),
\* /^\(\d+\)\s*/, /^\[\d+\]\s*/, /^["']|["']$/g, /[,;]$/
numberMarker == RCat(<<RBol, RPlus(RDigit), RLit("."), RStar(RSpace)>>)
bulletMarker == RCat(<<RBol, RSet(FALSE, {"-", "*"}, FALSE, FALSE, FALSE, FALSE),
                       RStar(RSpace)>>)
parenMarker == RCat(<<RBol, RLit("("), RPlus(RDigit), RLit(")"), RStar(RSpace)>>)
bracketMarker == RCat(<<RBol, RLit("["), RPlus(RDigit), RLit("]"), RStar(RSpace)>>)
quoteAtEdge ==
  RAlt(<<RCat(<<RBol, RSet(FALSE, {"\"", "'"}, FALSE, FALSE, FALSE, FALSE)>>),
         RCat(<<RSet(FALSE, {"\"", "'"}, FALSE, FALSE, FALSE, FALSE), REol>>)>>)
trailingPunctuation ==
  RCat(<<RSet(FALSE, {",", ";"}, FALSE, FALSE, FALSE, FALSE), REol>>)

\* /\s*\(incomplete.*?\)/gi, /\s*\(appears to be.*$/gi,
\* /\s*\([^)]*(?:also|same as|not)[^)]*\)/gi
notParen == RSet(TRUE, {")"}, FALSE, FALSE, FALSE, FALSE)
incompleteNote ==
  RCat(<<RStar(RSpace), RLit("(incomplete"),
         RStar(RSet(TRUE, {")", "\n", "\r"}, FALSE, FALSE, FALSE, FALSE)), RLit(")")>>)
appearsNote == RCat(<<RStar(RSpace), RLit("(appears to be"), RStar(RAny), REol>>)
otherNote ==
  RCat(<<RStar(RSpace), RLit("("), RStar(notParen),
         RAlt(<<RLit("also"), RLit("same as"), RLit("not")>>), RStar(notParen),
         RLit(")")>>)

\* the name of a line after the markers, quotes and notes are removed
LineName(trimmed) ==
  LET unmarked == Replace(bracketMarker,
                    Replace(parenMarker,
                      Replace(bulletMarker,
                        Replace(numberMarker, trimmed, FALSE, "", FALSE),
                        FALSE, "", FALSE),
                      FALSE, "", FALSE),
                    FALSE, "", FALSE)
      bare == Trim(Replace(trailingPunctuation,
                     Replace(quoteAtEdge, unmarked, FALSE, "", TRUE), FALSE, "", FALSE))
      n1 == IF Includes(bare, "(incomplete")
              THEN Trim(Replace(incompleteNote, bare, TRUE, "", TRUE)) ELSE bare
      n2 == IF Includes(n1, "(appears to be")
              THEN Trim(Replace(appearsNote, n1, TRUE, "", TRUE)) ELSE n1
  IN IF Includes(n2, "(also") \/ Includes(n2, "(same as") \/ Includes(n2, "(not")
       THEN Trim(Replace(otherNote, n2, TRUE, "", TRUE)) ELSE n2

\* /^bella\s*$/i
justBella == RCat(<<RBol, RLit("bella"), RStar(RSpace), REol>>)

\* the names that are placeholders of the prompt
placeholderPhrases ==
  {"business ", "salon name", "example", "placeholder", "test salon", "[name]", "{name}"}

\* the check of the name of a line
IsLineName(salonName) ==
  /\ Len(salonName) > 3
  /\ Len(salonName) < 100
  /\ \A part \in {Fence, "{{", "}}"} : ~Includes(salonName, part)
  /\ \A start \in {"{", "[", "<", "http"} : ~StartsWith(salonName, start)
  /\ ~AllDigits(salonName)
  /\ \A phrase \in placeholderPhrases : ~Includes(ToLowerCase(salonName), phrase)
  /\ ~Test(justBella, salonName, TRUE)
  /\ Test(anyLetter, salonName, FALSE)

\* the line is skipped before its name is looked at
IsSkippedLine(trimmed) ==
  \/ Len(trimmed) < 3
  \/ \E phrase \in skippedPhrases : Includes(ToLowerCase(trimmed), phrase)
  \/ Test(countOnly, trimmed, FALSE)
  \/ Test(categoryCount, trimmed, FALSE)

RECURSIVE FromLines(_, _)
\* Strategy 2: numbered and bulleted lists
FromLines(lines, allSalons) ==
  IF lines = <<>> THEN allSalons
  ELSE LET trimmed == Trim(Head(lines)) IN
       IF ~IsSkippedLine(trimmed) /\ IsLineName(LineName(trimmed))
         THEN FromLines(Tail(lines), addSalon(allSalons, LineName(trimmed)))
         ELSE FromLines(Tail(lines), allSalons)

\* Salon|Beauty|Hair|Nails?|Spa|Skin|Lash|Brow|Studio|Bar|Clinic|Center|Centre|
\* Wellness|Aesthetics|Massage|Relaxation
businessWords ==
  {"Salon", "Beauty", "Hair", "Nail", "Spa", "Skin", "Lash", "Brow", "Studio", "Bar",
   "Clinic", "Center", "Centre", "Wellness", "Aesthetics", "Massage", "Relaxation"}

\* the line matches /(?:^|\n)([A-Z][^\n]*?(?:Salon|...)[^\n]*?)(?:\n|$)/gm
IsBusinessLine(line) ==
  /\ IsUpper(At(line, 1))
  /\ \E word \in businessWords : Includes(SubSeq(line, 2, Len(line)), word)

RECURSIVE FromBusinessWords(_, _)
\* Strategy 3: the lines that hold a word of the trade
FromBusinessWords(lines, allSalons) ==
  IF lines = <<>> THEN allSalons
  ELSE LET name == Trim(Head(lines)) IN
       IF /\ IsBusinessLine(Head(lines))
          /\ ~Includes(name, ":")
          /\ ~StartsWith(ToLowerCase(name), "list of")
          /\ ~StartsWith(ToLowerCase(name), "here are")
          /\ Len(name) > 5
          /\ Len(name) < 100
         THEN FromBusinessWords(Tail(lines), addSalon(allSalons, name))
         ELSE FromBusinessWords(Tail(lines), allSalons)

\* [A-Za-z0-9\s&'\-]
phraseClass == RSet(FALSE, {"&", "'", "-"}, TRUE, TRUE, TRUE, TRUE)

RECURSIVE RunEnd(_, _)
\* the last position of the run of phrase characters that starts at i; i - 1 if none
RunEnd(text, i) ==
  IF i <= Len(text) /\ InClass(Char(text, i), phraseClass) THEN RunEnd(text, i + 1)
  ELSE i - 1

\* the match of /(?:^|\n)([A-Z][A-Za-z0-9\s&'\-]+)(?:\n|$)/m whose capital is at cap:
\* the last position of its group, 0 when it does not match there
PhraseEnd(text, cap) ==
  LET stops == {p \in (cap + 1)..RunEnd(text, cap + 1) :
                  p = Len(text) \/ At(text, p + 1) = "\n"}
  IN IF ~IsUpper(At(text, cap)) \/ stops = {} THEN 0
     ELSE CHOOSE p \in stops : \A q \in stops : q <= p

RECURSIVE CapitalizedPhrases(_, _)
\* content.match(/.../gm) from position i on: the groups of the matches
CapitalizedPhrases(text, i) ==
  IF i > Len(text) THEN <<>>
  ELSE LET atLineStart == IF i = 1 \/ At(text, i - 1) = "\n" THEN PhraseEnd(text, i) ELSE 0
           afterNewline == IF At(text, i) = "\n" THEN PhraseEnd(text, i + 1) ELSE 0
           cap == IF atLineStart # 0 THEN i ELSE i + 1
           end == IF atLineStart # 0 THEN atLineStart ELSE afterNewline
       IN IF end = 0 THEN CapitalizedPhrases(text, i + 1)
          ELSE <<SubSeq(text, cap, end)>> \o CapitalizedPhrases(text, end + 2)

\* /^[A-Z][a-z]+\s+[A-Z][a-z]+:/
headerPattern ==
  RCat(<<RBol, RSet(FALSE, {}, FALSE, TRUE, FALSE, FALSE),
         RPlus(RSet(FALSE, {}, TRUE, FALSE, FALSE, FALSE)), RPlus(RSpace),
         RSet(FALSE, {}, FALSE, TRUE, FALSE, FALSE),
         RPlus(RSet(FALSE, {}, TRUE, FALSE, FALSE, FALSE)), RLit(":")>>)

metaWords == {"here", "list", "based", "note", "total", "found", "search", "result"}

RECURSIVE FromPhrases(_, _)
\* Strategy 4: capitalized phrases
FromPhrases(phrases, allSalons) ==
  IF phrases = <<>> THEN allSalons
  ELSE LET cleaned == Trim(Head(phrases)) IN
       IF /\ Len(cleaned) > 5
          /\ Len(cleaned) < 80
          /\ \A word \in metaWords : ~Includes(ToLowerCase(cleaned), word)
          /\ ~Test(headerPattern, cleaned, FALSE)
          /\ Test(anyLetter, cleaned, FALSE)
         THEN FromPhrases(Tail(phrases), addSalon(allSalons, cleaned))
         ELSE FromPhrases(Tail(phrases), allSalons)

\* extractSalonArray(content)
extractSalonArray(text) ==
  LET lines == SplitLines(text)
      found == FromBusinessWords(lines,
                 FromLines(lines, FromArrays(BracketMatches(text, 1), <<>>)))
  IN IF Len(found) < 10 THEN FromPhrases(CapitalizedPhrases(text, 1), found) ELSE found

--------------------------------------------------------------------------
(* The two routes serving one request each, with the upstream answering a
   text: what parseJsonResponse and extractSalonArray make of the text is
   computed from it. *)

\* the content makeRequest returns, with what the two readers make of it and
\* what each strategy of the cascade makes of it on its own; only listSalons
\* runs extractSalonArray
TextBody(text, isArrayExpected) ==
  [text |-> text, isArrayExpected |-> isArrayExpected,
   strategies |-> Strategies(text, isArrayExpected),
   extracted |-> IF isArrayExpected THEN extractSalonArray(text) ELSE <<>>]
    @@ parseJsonResponse(text, isArrayExpected)

\* scenario A: a reasoning segment followed by the array
ScenarioA == "<think>reasoning...</think>\n[\"Bella Hair\", \"1\"]"

\* a JSON text alone, after reasoning, in a code block, inside a sentence, and
\* between white space
Wrapped(json) ==
  {json,
   "<think>reasoning...</think>\n" \o json,
   "Here you go:\n" \o Fence \o "json\n" \o json \o "\n" \o Fence,
   "Found " \o json \o " today",
   " " \o json \o "\n"}

ListJson ==
  {"[\"Bella Hair\", \"1\"]", "[\"Bella Hair\", \"Cutting Edge Salon\"]", "[\"Jo\"]",
   "[\"Hair from Heaven\"]", "[]", "{\"salons\": [\"Bella Hair\", \"Hi Salon\"]}"}
ListTexts ==
  UNION {Wrapped(json) : json \in ListJson}
    \cup {"1. Bella Hair in Newtown\n- Cutting Edge Salon", "sorry, nothing found",
          "<p>{\"name\": \"Bella Hair\"}</p>", "<think>no idea</think>"}

DetailJson ==
  {"{\"name\": \"Bella Hair\", \"address\": \"12 King St, Newtown\"}",
   "{\"name\": \"Bella Hair\"}", "{\"address\": \"12 King St, Newtown\"}"}
DetailTexts ==
  UNION {Wrapped(json) : json \in DetailJson}
    \cup {"Sorry, I cannot help.",
          "A: {\"name\": \"Bella\"} B: {\"name\": \"Bella Hair\", \"website\": \"b.example\"}"}

TextBodies ==
  [list |-> {TextBody(text, TRUE) : text \in ListTexts},
   details |-> {TextBody(text, FALSE) : text \in DetailTexts}]

(***************************************************************************)
(* The routes served by replies whose content is a text: the client runs   *)
(* parseJsonResponse (and, for a list, extractSalonArray) over it.  The    *)
(* upstream may answer 429 first, which the client retries.                *)
(***************************************************************************)
NextExtract ==
  \/ ListRequest(ListRequests)
  \/ DetailsRequest(GovDetailRequests)
  \/ waitForSlot
  \/ Post429({429})
  \/ RetrySleep
  \/ PostOk(TextBodies)
  \/ ListParsed
  \/ DetailsParsed
  \/ DetailsEnrich({})
  \/ DetailsFinish(ThumbnailReplies)

SpecExtract == InitServing(1) /\ [][NextExtract]_vars

\* The number of the first strategy of the cascade that does not abstain; 0
\* when every strategy abstains.
FirstStrategy(strategies) ==
  IF \A k \in 1..Len(strategies) : strategies[k] = Abstain
    THEN 0
    ELSE CHOOSE k \in 1..Len(strategies) :
           /\ strategies[k] # Abstain
           /\ \A j \in 1..(k - 1) : strategies[j] = Abstain

\* The text is valid JSON in the shape the caller expects: an array of
\* strings for a list, an object for the details.
ValidJson(text, isArrayExpected) ==
  LET parsed == JsonParse(Trim(text)) IN
  /\ parsed # JsonFail
  /\ Has(parsed.value, IF isArrayExpected THEN "array" ELSE "object")

\* listSalons throws away a parsed array of one suspicious item.
ParsedArrayRejected(body) ==
  /\ Has(body.parsed, "array")
  /\ Len(body.parsed.array) = 1
  /\ SuspiciousSingle(body.parsed.array[1])

\* C23: the result of the cascade is the result of the first strategy, in
\* the order 1..6, that does not abstain; and for a text that is valid JSON
\* in the expected shape the direct parse yields the result and nothing
\* after it runs: listSalons returns the parsed array as it is.
C23_FirstStrategyWins ==
  Has(content, "text") =>
    /\ content.strategy = FirstStrategy(content.strategies)
    /\ content.strategy # 0 => content.parsed = content.strategies[content.strategy]
    /\ ValidJson(content.text, content.isArrayExpected) =>
         /\ content.strategy = 1
         /\ content.parsed = JsonParse(Trim(content.text)).value
         /\ content.isArrayExpected =>
              /\ ~ParsedArrayRejected(content)
              /\ ListOutcome(content) = [salons |-> content.parsed.array]

\* The parts of C23 that are about parseJsonResponse alone.
CascadeOrder ==
  Has(content, "text") =>
    /\ content.strategy = FirstStrategy(content.strategies)
    /\ content.strategy # 0 => content.parsed = content.strategies[content.strategy]
    /\ ValidJson(content.text, content.isArrayExpected) => content.strategy = 1

\* Every strategy of the cascade abstained on the content.
AllAbstained(body) == \A k \in 1..Len(body.strategies) : body.strategies[k] = Abstain

\* The call that met a parse failure sent nothing after the reply it could
\* not parse, and ended with a terminal error.
EndsWithoutRetry ==
  /\ sent = n429 + 1
  /\ pc \in {"parse", "done"}
  /\ pc = "done" => (response.status = 500 /\ thrown = TerminalError)

\* C24: parseJsonResponse fails only when every strategy has abstained, and
\* after a reply no strategy can parse the call sends no further request and
\* ends with a terminal error.
C24_ParseFailureIsTerminal ==
  (Has(content, "text") /\ content.parsed = ParseFailure) =>
    (AllAbstained(content) /\ EndsWithoutRetry)

\* What holds of C24: the failure is raised only when every strategy has
\* abstained, no further request is sent, and the call ends with a terminal
\* error when the enhanced extraction of listSalons finds no name either.
ParseFailureNotRetried ==
  (Has(content, "text") /\ content.parsed = ParseFailure) =>
    /\ AllAbstained(content)
    /\ sent = n429 + 1
    /\ content.extracted = <<>> => EndsWithoutRetry

\* The reply of scenario A has been read by the list route.
ScenarioARead == Has(content, "text") /\ content.text = ScenarioA /\ kind = "list"

\* C25: for the reply "<think>reasoning...</think>" followed by the array
\* ["Bella Hair", "1"], the extraction succeeds through the strategy that
\* parses the text after the closing reasoning tag, the validator rejects
\* "1" and keeps "Bella Hair", and the list answered is exactly
\* ["Bella Hair"].
C25_ScenarioA ==
  ScenarioARead =>
    /\ content.strategy = 2
    /\ content.parsed = [array |-> <<"Bella Hair", "1">>]
    /\ ListOutcome(content) = [salons |-> <<"Bella Hair", "1">>]
    /\ ~isValidSalonName("1")
    /\ isValidSalonName("Bella Hair")
    /\ pc = "done" =>
         /\ response.status = 200
         /\ response.salons = <<[name |-> "Bella Hair"]>>
         /\ response.count = 1

C25_Witness ==
  /\ ScenarioARead
  /\ pc = "done"
  /\ content.strategy = 2
  /\ response.status = 200
  /\ response.salons = <<[name |-> "Bella Hair"]>>

--------------------------------------------------------------------------
(* The request log of the RateLimiter under calls that run one at a time. *)

\* getRemainingRequests: the log is filtered to the window first
getRemainingRequests(times, t) == Max2(0, maxRequests - Len(InWindow(times, t)))

\* the timestamps of the log that are younger than windowMs
YoungerThanWindow == {i \in 1..Len(requestTimes) : now - requestTimes[i] < windowMs}

\* C26: with the governed calls running one at a time, the log never holds
\* more than maxRequests timestamps younger than windowMs, and
\* getRemainingRequests is between 0 and maxRequests.
C26_WindowNeverOverfull ==
  /\ Cardinality(YoungerThanWindow) <= maxRequests
  /\ getRemainingRequests(requestTimes, now) \in 0..maxRequests
  /\ getRemainingRequests(requestTimes, now) = maxRequests - Cardinality(YoungerThanWindow)

\* A request was recorded into a window that had been full when the call
\* reached waitForSlot: the window is full again and nothing remains.
C26_Witness ==
  /\ pc = "parse"
  /\ waits # <<>>
  /\ Cardinality(YoungerThanWindow) = maxRequests
  /\ getRemainingRequests(requestTimes, now) = 0

--------------------------------------------------------------------------
(* The keys of the details cache over one call and the next. *)

\* a details call that fetched the record from the upstream has answered 200
\* with a record the validation found nothing wrong with
FetchedAndAnswered ==
  /\ kind = "details"
  /\ pc = "done"
  /\ response.status = 200
  /\ response.body._meta.validationIssues = <<>>
  /\ ~route.fromCache

\* the file a record is saved in by the route
SavedFile(record) ==
  DetailsFile(CacheKeyId(record, route.placeId), record.name, OrElse(route.model, "sonar"))

\* the files the call saved the record in: after the fetch (the key takes the
\* request's placeId), after the enrichment and after the thumbnails
SavedFiles ==
  {DetailsFile(route.placeId, route.salonDetails.name, OrElse(route.model, "sonar")),
   SavedFile(route.enriched)}

\* what a second call for the same salon and model would find now
LookupAgain ==
  getSalonDetails(detailsCache, route.placeId, route.salon.name,
                  OrElse(route.model, "sonar"), now)

\* C27: after a details call has fetched, saved and answered, the same
\* request is a cache hit: every file the call saved the record in is the
\* file the request looks up.
C27_RepeatIsCacheHit ==
  FetchedAndAnswered =>
    /\ LookupAgain.result # Null
    /\ \A file \in SavedFiles : file = RequestFile

\* The first half of C27 alone: the repeated request finds some record.
RepeatFindsARecord == FetchedAndAnswered => LookupAgain.result # Null

--------------------------------------------------------------------------
(* The details call and the upstream: a cache hit asks nothing of it. *)

\* the state of the RateLimiter
limiterState == <<requestTimes, backoffUntil, consecutiveErrors>>

\* C28: during a details call answered from the cache no request is sent
\* upstream and the window log, backoffUntil and the error counter stay as
\* they were; a call with skipCache true is never answered from the cache and
\* has sent a request when it ends.
C28_HitAsksNothing ==
  [][/\ (Has(route', "fromCache") /\ route'.fromCache) =>
          (sent' = 0 /\ limiterState' = limiterState /\ ~route'.skipCache)
     /\ (Has(route', "fromCache") /\ route'.skipCache) =>
          (~route'.fromCache /\ (pc' = "done" => sent' >= 1))]_vars

\* A second call was answered from the cache, after a first one that had
\* been recorded by the limiter.
C28_Witness ==
  /\ kind = "details"
  /\ pc = "done"
  /\ Has(route, "fromCache")
  /\ route.fromCache
  /\ response.status = 200
  /\ sent = 0
  /\ requestTimes # <<>>

\* A call with skipCache true has sent a request although the cache holds
\* the record it asks for.
SkipCacheSends ==
  /\ kind = "details"
  /\ pc = "done"
  /\ Has(route, "fromCache")
  /\ route.skipCache
  /\ RequestFile \in DOMAIN detailsCache
  /\ callsLeft = 0
  /\ sent = 1

--------------------------------------------------------------------------
(* Calls that fail, after calls that filled the cache. *)

FailureBodies == [list |-> ListBodies, details |-> DetailBodies]

NextFailure ==
  \/ ListRequest(ListRequests)
  \/ DetailsRequest(DetailRequests)
  \/ waitForSlot
  \/ PostOk(FailureBodies)
  \/ PostError({400})
  \/ ClientRethrow
  \/ ListParsed
  \/ DetailsParsed
  \/ DetailsEnrich({})
  \/ DetailsFinish(ThumbnailReplies)

SpecFailure == InitServing(MaxCalls) /\ [][NextFailure]_vars

\* no file of the directory was created or overwritten
NothingWritten(before, after) ==
  \A file \in DOMAIN after : file \in DOMAIN before /\ after[file] = before[file]

\* the call has ended with a terminal transport failure: no reply was taken
TransportFailed == pc = "done" /\ response.status = 500 /\ content = NoContent

\* the call has ended because the reply could not be parsed
ParseFailed ==
  /\ pc = "done"
  /\ response.status = 500
  /\ content # NoContent
  /\ IF kind = "list" THEN Has(ListOutcome(content), "error")
                      ELSE content.parsed = ParseFailure

\* the list call has ended because the validator left no name
AllRejected ==
  /\ pc = "done"
  /\ kind = "list"
  /\ response.status = 500
  /\ content # NoContent
  /\ ~Has(ListOutcome(content), "error")

\* C29: a call that ended in a terminal transport failure, a parse failure
\* or, for a list, the rejection of every name has left the cache as it
\* found it: no list, details or index entry was created or overwritten.
C29_FailureLeavesCache ==
  (TransportFailed \/ ParseFailed \/ AllRejected) =>
    /\ NothingWritten(route.before.details, detailsCache)
    /\ listCache = route.before.lists
    /\ cacheIndex = route.before.index

\* A list call failed on a cache that an earlier call had filled.
C29_Witness ==
  /\ AllRejected
  /\ listCache # <<>>
  /\ cacheIndex # NoFile
  /\ listCache = route.before.lists

\* A details call met a parse failure on a cache that held details already.
ParseFailedOnFilledCache ==
  ParseFailed /\ kind = "details" /\ route.before.details # <<>>

\* A call met a terminal transport failure on a cache that held a list already.
TransportFailedOnFilledCache == TransportFailed /\ route.before.lists # <<>>

--------------------------------------------------------------------------
(* The list cache and its index under calls for suburbs that are written
   in more than one way. *)

IndexSuburbs == {"Newtown", "newtown", " Newtown", "Glebe"}

NextIndex ==
  \/ CallSaveSalonList(IndexSuburbs, CacheLists, {<<>>})
  \/ CallGetSalonList(IndexSuburbs)
  \/ CallDeleteSalonList(IndexSuburbs)
  \/ CallGetAllCached
  \/ Tick(TickSteps)

SpecIndex == InitServing(0) /\ [][NextIndex]_vars

\* the entries of the index file
IndexEntries == IF cacheIndex = NoFile THEN <<>> ELSE cacheIndex.entries

\* the entries of the index that name the list stored in the file
EntriesOf(file) == {i \in 1..Len(IndexEntries) : ListFile(IndexEntries[i].suburb) = file}

\* C30: whatever calls were made and however the clock advanced, every
\* suburb getAllCached reports has a stored list that getSalonList returns,
\* and the index has at most one entry for each stored list.
C30_IndexAgreesWithLists ==
  /\ LET reported == getAllCached(cacheIndex, now).result IN
     \A i \in 1..Len(reported) :
       getSalonList(listCache, cacheIndex, reported[i].suburb, now).result # Null
  /\ \A file \in DOMAIN listCache : Cardinality(EntriesOf(file)) <= 1

\* What holds of C30: the same, when each suburb is always written the same
\* way (SpecCache).
IndexAgreesForExactNames ==
  /\ LET reported == getAllCached(cacheIndex, now).result IN
     \A i \in 1..Len(reported) :
       getSalonList(listCache, cacheIndex, reported[i].suburb, now).result # Null
  /\ \A file \in DOMAIN listCache : Cardinality(EntriesOf(file)) <= 1
  /\ \A i, j \in 1..Len(IndexEntries) :
       i # j => IndexEntries[i].suburb # IndexEntries[j].suburb

====
